---- MODULE Spec2Model ----
(***************************************************************************)
(* AIMQ: the Queue dispatch procedure (src/src/aimq/queue.py), the worker  *)
(* loop and the main thread of the Worker (src/src/aimq/worker.py), the    *)
(* Logger (src/src/aimq/logger.py), the realtime wake-up service with its  *)
(* IO thread (src/src/aimq/realtime/) and the provider calls they issue    *)
(* (src/src/aimq/providers/supabase.py).                                   *)
(*                                                                         *)
(* One Queue.work() call is modelled step by step: the fetch (Queue.next), *)
(* the invocation (Queue.run), the exception handler of work(), and the    *)
(* return to the caller.  The provider, the Runnable and the on_error      *)
(* callback are the environment: what they return or raise is chosen       *)
(* nondeterministically.  The history of the current work() call (provider *)
(* calls with their outcome, invocations, finish() results, on_error       *)
(* calls) is kept until the caller has taken the call's result.  Every     *)
(* queue of the Worker is registered with the same arguments, drawn from   *)
(* Configs.                                                                *)
(*                                                                         *)
(* The threads (WorkerThread, main thread with its signal handler, the IO  *)
(* thread of the realtime service, the consumer of Logger.events) move in  *)
(* steps of their own; each specification below puts together the steps of *)
(* the threads it is about.  SpecLease, SpecRetry and SpecDead replace the *)
(* free provider by one that stores messages and honours read leases.      *)
(* SpecApi follows sequences of Worker.start and Worker.stop calls, with   *)
(* the loop of a WorkerThread reduced to its reaction to the running flag. *)
(***************************************************************************)
EXTENDS Integers, Sequences, FiniteSets, TLC

VARIABLES
    queues,        \* Worker.queues: queue name -> Queue fields
    pc,            \* position of the current Queue.work() call
    wq,            \* name of the queue whose work() is running / ran last
    response,      \* what provider.read / provider.pop answered in next()
    job,           \* the Job next() returned (None if none)
    exc,           \* the exception Runnable.invoke raised (None if none)
    calls,         \* provider calls issued by this work() call, in order
    invocations,   \* Runnable.invoke calls of this work() call: input, config
    output,        \* what Runnable.invoke returned (None if it did not return)
    finishes,      \* return values of the finish() calls of this work() call
    handled,       \* on_error calls of this work() call: job, error
    ret,           \* return value of work() (None is Python's None)
    raised,        \* the exception that left work() (None if it returned)
    config,        \* aimq.config.config: the process-wide settings
    is_running,    \* Worker.is_running / WorkerThread.running (an Event)
    lpc,           \* Worker.thread: position of the WorkerThread
    qi,            \* WorkerThread.run: index of the queue of the for loop
    dispatched,    \* queues whose work() this pass of the loop has called
    found_jobs,    \* WorkerThread.run: local found_jobs of this pass
    consecutive_failures,  \* WorkerThread.consecutive_failures
    current_backoff,       \* WorkerThread.current_backoff, in ticks
    elapsed,       \* ticks since sleep_start of the idle sleep
    thread_service,    \* WorkerThread.realtime_service is not None
    realtime_service,  \* Worker.realtime_service is not None
    service,       \* the RealtimeWakeupService thread: none/running/stopped
    monitored,     \* RealtimeWakeupService._queues
    worker_events, \* RealtimeWakeupService._worker_events
    event_set,     \* flag of each threading.Event handed to the service
    main,          \* position of the main thread in Worker.start
    block,         \* the block argument of Worker.start
    handler,       \* position of the main thread in _signal_handler
    shutdown_count,    \* Worker._shutdown_count
    process,       \* the process: alive, or its exit code
    log_queue,     \* Logger._queue
    enqueued,      \* every item put on Logger._queue so far, in order
    consumer,      \* position of the thread iterating Logger.events
    delivered,     \* the events Logger.events has yielded so far, in order
    io,            \* RealtimeBaseListener._thread: position of the IO thread
    io_backoff,    \* _run: local backoff, as its binary exponent
    connected,     \* RealtimeBaseListener._connected (an Event)
    io_delays,     \* delays _run has slept since the last successful connect
    messages,      \* the provider: the messages of each queue, oldest first
    sent,          \* every message handed to provider.send so far, in order
    runs,          \* every Runnable.invoke so far: message id and input
    thread,        \* Worker.thread: 0 for None, else its position in threads
    threads,       \* every WorkerThread constructed by start(), in order
    api_calls      \* the start() and stop() calls made so far, in order

\* the current Queue.work() call
workvars == <<pc, wq, response, job, exc, calls, invocations, output,
              finishes, handled, ret, raised>>

\* the WorkerThread
loopvars == <<lpc, qi, dispatched, found_jobs, consecutive_failures, current_backoff,
              elapsed, thread_service>>

\* the RealtimeWakeupService and the events registered with it
rtvars == <<service, monitored, worker_events, event_set>>

\* the Worker on the main thread, and the process
mainvars == <<is_running, realtime_service, main, block, handler,
              shutdown_count, process>>

\* the Logger
logvars == <<log_queue, enqueued, consumer, delivered>>

\* the IO thread of the RealtimeWakeupService
iovars == <<io, io_backoff, connected, io_delays>>

\* the provider's queues, with the history of sends and invocations
storevars == <<messages, sent, runs>>

\* everything but the queues, the current work() call and the provider
workervars == <<config, loopvars, rtvars, mainvars, logvars, iovars>>

\* the Worker as its callers see it: used where the model follows sequences
\* of start() and stop() calls, with the loop of a WorkerThread reduced to
\* its reaction to the running flag
apivars == <<thread, threads, api_calls>>

vars == <<queues, workvars, workervars, storevars, apivars>>

-----------------------------------------------------------------------------
(* Bounds of the model *)

MaxJobId == 2
MaxAttempt == 2
MaxRetriesCfg == 2

\* cap of consecutive_failures[q]: no work() call starts on a queue at the cap
MaxFailures == 3
\* Worker.idle_wait and config.queue_max_backoff, in ticks of the idle sleep
IdleWait == 1
MaxBackoff == 3
\* termination signals delivered to the process
MaxSignals == 2
\* items put on the Logger's queue by the producers of the Logger model
MaxLog == 3
\* failed connection attempts of the realtime service in a row
MaxConnectFailures == 8
\* finish() calls of one caller on the job it holds
MaxFinish == 2
\* messages sent to the queues of the worker
MaxSends == 2
\* the jobs sent to the queues of a Runnable that always raises
MaxRetryJobs == 1
\* start() and stop() calls in a row
MaxCalls == 4

(* Program constants *)

queue_max_retries == 5
TimeoutDefault == 300

\* a Python float is an IEEE double: 2.0 ** 1024 raises OverflowError
FloatMaxExp == 1024

-----------------------------------------------------------------------------
(* Values *)

\* Python's None, and a present optional value
None == [none |-> TRUE]
Some(v) == [none |-> FALSE, val |-> v]

QueueNames == <<"q1", "q2">>
DlqName == "q1_dlq"
WorkerName == "peon"

\* Queue fields set by Worker.assign
Configs ==
    [timeout : {0, TimeoutDefault},
     delete_on_finish : BOOLEAN,
     max_retries : {None} \cup {Some(n) : n \in 0..MaxRetriesCfg},
     dlq : {None, Some(DlqName)},
     on_error : BOOLEAN,
     tags : {<<"test">>},
     worker_name : {WorkerName}]

\* job payloads (dicts): with and without the thread_id key
Payloads ==
    { [key |-> "value"],
      [key |-> "value", thread_id |-> "custom-thread-123"],
      [thread_id |-> "custom-thread-123"] }

JobIds == 1..MaxJobId
Attempts == (0..MaxAttempt) \cup {queue_max_retries}

\* Job.from_response as the provider calls it
Job(id, read_ct, message, queue_name, popped) ==
    [id |-> id, attempt |-> read_ct, data |-> message,
     queue |-> queue_name, popped |-> popped]

\* exceptions: the class, the message and the call that raised it
Error(cls, msg, origin) == [cls |-> cls, msg |-> msg, origin |-> origin]

\* what Runnable.invoke may raise: two Exception subclasses and one
\* BaseException that is no Exception
InvokeErrors ==
    { Error("RuntimeError", "boom", "invoke"),
      Error("ZeroDivisionError", "division by zero", "invoke"),
      Error("KeyboardInterrupt", "", "invoke") }

HandlerError == Error("ValueError", "Handler error", "on_error")

SendError == Error("Exception", "DLQ send failed", "send")

FinishError == Error("Exception", "finalization failed", "finish")

\* SupabaseQueueProvider._rpc: error 42P01 becomes the provider package's
\* QueueNotFoundError; every other error is re-raised unchanged.  A provider
\* written against aimq.queue may raise that module's QueueNotFoundError.
FetchErrors(op) ==
    { Error("aimq.providers.base.QueueNotFoundError", "does not exist", op),
      Error("aimq.queue.QueueNotFoundError", "does not exist", op),
      Error("Exception", "connection lost", op) }

-----------------------------------------------------------------------------
(* Provider calls, as the Queue issues them; the log of a work() call keeps *)
(* each call with the exception the provider raised (None if it returned)  *)

Logged(call, error) == [call |-> call, error |-> error]

ReadCall(q, vt, n) == [op |-> "read", queue |-> q, vt |-> vt, n |-> n]
PopCall(q) == [op |-> "pop", queue |-> q]
SendCall(q, data) == [op |-> "send", queue |-> q, data |-> data, delay |-> None]
ArchiveCall(q, id) == [op |-> "archive", queue |-> q, id |-> id]
DeleteCall(q, id) == [op |-> "delete", queue |-> q, id |-> id]

-----------------------------------------------------------------------------
(* Queue.next *)

\* (mutant) next() capping the visibility timeout at five seconds
next_call_capped(q) ==
    IF queues[q].timeout = 0
    THEN PopCall(q)
    ELSE ReadCall(q, IF queues[q].timeout < 5 THEN queues[q].timeout ELSE 5, 1)

\* the provider call next() makes: pop when timeout == 0, else read with the
\* full timeout as visibility timeout and a batch of one
next_call(q) ==
    IF queues[q].timeout = 0
    THEN PopCall(q)
    ELSE ReadCall(q, queues[q].timeout, 1)

\* the job next() takes from the provider's answer
next_result(resp) ==
    IF resp.kind = "pop"
    THEN resp.job
    ELSE IF resp.jobs # <<>> THEN resp.jobs[1] ELSE None

\* `except QueueNotFoundError` in queue.py names the class queue.py defines
next_catches(e) == e.cls = "aimq.queue.QueueNotFoundError"

\* what the provider may answer to next_call(q)
ReadJobs(q) ==
    { Job(i, a, d, q, FALSE) : i \in JobIds, a \in Attempts, d \in Payloads }

PopJobs(q) ==
    { Job(i, a, d, q, TRUE) : i \in JobIds, a \in Attempts, d \in Payloads }

OtherId(i) == IF i = MaxJobId THEN 1 ELSE i + 1

Responses(q) ==
    IF queues[q].timeout = 0
    THEN { [kind |-> "pop", job |-> None] }
         \cup { [kind |-> "pop", job |-> j] : j \in PopJobs(q) }
         \cup { [kind |-> "raise", error |-> e] : e \in FetchErrors("pop") }
    ELSE { [kind |-> "read", jobs |-> <<>>] }
         \cup { [kind |-> "read", jobs |-> <<j>>] : j \in ReadJobs(q) }
         \cup { [kind |-> "read",
                 jobs |-> <<j, [j EXCEPT !.id = OtherId(j.id)]>>] :
                j \in ReadJobs(q) }
         \cup { [kind |-> "raise", error |-> e] : e \in FetchErrors("read") }

-----------------------------------------------------------------------------
(* Queue.get_runtime_config, Queue.run *)

thread_id(j) ==
    IF "thread_id" \in DOMAIN j.data
    THEN j.data["thread_id"]
    ELSE "job-" \o ToString(j.id)

get_runtime_config(q, j) ==
    [metadata |-> [worker |-> queues[q].worker_name, queue |-> q, job |-> j.id],
     tags |-> queues[q].tags,
     configurable |-> [thread_id |-> thread_id(j)]]

\* (mutant) run() handing the whole payload to the Runnable
input_data_unfiltered(j) == j.data

input_data(j) == [k \in (DOMAIN j.data) \ {"thread_id"} |-> j.data[k]]

run_invocation(q, j) ==
    [input |-> input_data(j), config |-> get_runtime_config(q, j)]

\* an object with an id attribute, as a langchain message has; a dict has
\* keys and no such attribute
Message == [object |-> "AIMessage", id |-> "run-1"]

\* what a Runnable may return for an input: Python's None, the input itself
\* (an echo), a fresh dict, or an object
Outputs(input) == {None, input, [result |-> "success"], Message}

-----------------------------------------------------------------------------
(* Queue.send_to_dlq, Queue.finish, retry limit *)

\* (mutant) send_to_dlq() putting the Runnable's input, not the payload, in
\* the envelope
dlq_data_filtered(q, j, e) ==
    [original_queue |-> q,
     original_job_id |-> j.id,
     attempt_count |-> j.attempt,
     error_type |-> e.cls,
     error_message |-> e.msg,
     job_data |-> input_data(j)]

dlq_data(q, j, e) ==
    [original_queue |-> q,
     original_job_id |-> j.id,
     attempt_count |-> j.attempt,
     error_type |-> e.cls,
     error_message |-> e.msg,
     job_data |-> j.data]

send_to_dlq_call(q, j, e) == SendCall(queues[q].dlq.val, dlq_data(q, j, e))

\* (mutant) finish() without the popped check
finish_calls_ignores_popped(q, j, provider_error) ==
    IF queues[q].delete_on_finish
    THEN <<Logged(DeleteCall(q, j.id), provider_error)>>
    ELSE <<Logged(ArchiveCall(q, j.id), provider_error)>>

\* (mutant) finish() with the delete_on_finish test inverted
finish_calls_inverted(q, j, provider_error) ==
    IF j.popped
    THEN <<>>
    ELSE IF queues[q].delete_on_finish
         THEN <<Logged(ArchiveCall(q, j.id), provider_error)>>
         ELSE <<Logged(DeleteCall(q, j.id), provider_error)>>

\* (mutant) finish() guarded: nothing for a job already archived or deleted
finish_calls_guarded(q, j, provider_error) ==
    IF j.popped \/ \E i \in DOMAIN calls :
                      calls[i].call.op \in {"archive", "delete"}
    THEN <<>>
    ELSE IF queues[q].delete_on_finish
         THEN <<Logged(DeleteCall(q, j.id), provider_error)>>
         ELSE <<Logged(ArchiveCall(q, j.id), provider_error)>>

\* the provider call finish() makes: none for a popped job, else delete or
\* archive by delete_on_finish.  provider_error: what that call raises.
finish_calls(q, j, provider_error) ==
    IF j.popped
    THEN <<>>
    ELSE IF queues[q].delete_on_finish
         THEN <<Logged(DeleteCall(q, j.id), provider_error)>>
         ELSE <<Logged(ArchiveCall(q, j.id), provider_error)>>

\* (mutant) finish() reporting success whatever the provider did
finish_result_true(j, provider_error) == TRUE

\* finish() returns True, or False when the provider call raised
finish_result(j, provider_error) ==
    IF j.popped THEN TRUE ELSE provider_error = None

effective_max_retries(q) ==
    IF queues[q].max_retries # None
    THEN queues[q].max_retries.val
    ELSE queue_max_retries

\* (mutant) every failure taken for the last attempt
retries_exhausted_always(q, j) == TRUE

\* (mutant) the retry limit reached one attempt early
retries_exhausted_early(q, j) == j.attempt + 1 >= effective_max_retries(q)

\* (mutant) the retry limit compared with > instead of >=
retries_exhausted_strict(q, j) == j.attempt > effective_max_retries(q)

retries_exhausted(q, j) == j.attempt >= effective_max_retries(q)

dlq_configured(q) == queues[q].dlq # None

\* `except Exception as e` of work(): KeyboardInterrupt and SystemExit derive
\* from BaseException only and pass through
work_catches(e) == e.cls \notin {"KeyboardInterrupt", "SystemExit"}

\* pgmq: a pop, an archive or a delete that returned has taken the message
\* out of the queue; a read leaves it there, invisible until vt expires
provider_removes(entry) ==
    entry.error = None /\ entry.call.op \in {"pop", "archive", "delete"}

\* what a branch of work() leaves behind: the provider calls it added, the
\* finish() results, and the exception it lets out of work() (None: it
\* returns None)
Outcome(new_calls, finish_results, error) ==
    [calls |-> new_calls, finishes |-> finish_results, raised |-> error]

\* (mutant) the original finished before the DLQ send
dead_letter_sent_finish_first(q, j, e, provider_error) ==
    Outcome(finish_calls(q, j, provider_error)
                \o <<Logged(send_to_dlq_call(q, j, e), None)>>,
            <<finish_result(j, provider_error)>>,
            None)

\* try: send_to_dlq(job, e); finish(job); return None
dead_letter_sent(q, j, e, provider_error) ==
    Outcome(<<Logged(send_to_dlq_call(q, j, e), None)>>
                \o finish_calls(q, j, provider_error),
            <<finish_result(j, provider_error)>>,
            None)

\* (mutant) the job finished although the DLQ send raised
dead_letter_failed_finishes(q, j, e, dlq_error) ==
    Outcome(<<Logged(send_to_dlq_call(q, j, e), dlq_error)>>
                \o finish_calls(q, j, None),
            <<finish_result(j, None)>>,
            dlq_error)

\* (mutant) `raise e` in place of the bare `raise`
dead_letter_failed_raises_e(q, j, e, dlq_error) ==
    Outcome(<<Logged(send_to_dlq_call(q, j, e), dlq_error)>>, <<>>, e)

\* except Exception as dlq_error: log, do not finish, bare `raise`
dead_letter_failed(q, j, e, dlq_error) ==
    Outcome(<<Logged(send_to_dlq_call(q, j, e), dlq_error)>>, <<>>, dlq_error)

\* no DLQ configured: warn, finish(job), return None
exhausted_without_dlq(q, j, provider_error) ==
    Outcome(finish_calls(q, j, provider_error),
            <<finish_result(j, provider_error)>>,
            None)

\* retries remain: the bare `raise` that ends `except Exception as e`
retry(e) == Outcome(<<>>, <<>>, e)

\* the retry / dead-letter decision of work()'s exception handler
except_outcome(q, j, e, dlq_error, provider_error) ==
    IF retries_exhausted(q, j)
    THEN IF dlq_configured(q)
         THEN IF dlq_error = None
              THEN dead_letter_sent(q, j, e, provider_error)
              ELSE dead_letter_failed(q, j, e, dlq_error)
         ELSE exhausted_without_dlq(q, j, provider_error)
    ELSE retry(e)

\* (mutant) on_error called again after its guard
on_error_calls_twice(q, j, e, handler_error) ==
    IF queues[q].on_error
    THEN <<[job |-> j, error |-> e, raised |-> handler_error,
            after |-> Len(calls)],
           [job |-> j, error |-> e, raised |-> None, after |-> Len(calls)]>>
    ELSE <<>>

\* the on_error call of work()'s exception handler (its own exception is
\* logged and swallowed); it comes before the retry limit is looked at:
\* after: how many provider calls work() had issued when it was made
on_error_calls(q, j, e, handler_error) ==
    IF queues[q].on_error
    THEN <<[job |-> j, error |-> e, raised |-> handler_error,
            after |-> Len(calls)]>>
    ELSE <<>>

-----------------------------------------------------------------------------
(* aimq.config.config and Worker.idle_wait *)

\* The settings the worker loop reads.  Durations are in ticks of the idle
\* sleep (one time.sleep(0.1)).  queue_backoff_multiplier is a float; the
\* model keeps the powers of two, each as its exponent: log2 = 1 is the
\* default 2.0.
ProcessConfig(log2, realtime) ==
    [worker_idle_wait |-> IdleWait,
     queue_backoff_multiplier |-> [log2 |-> log2],
     queue_max_backoff |-> MaxBackoff,
     supabase_realtime_enabled |-> realtime]

\* no Supabase URL and key: no realtime service
DefaultConfig == ProcessConfig(1, FALSE)

\* QUEUE_BACKOFF_MULTIPLIER: 2.0, and 2.0 ** 512
ProcessConfigs ==
    {ProcessConfig(log2, realtime) : log2 \in {1, 512}, realtime \in BOOLEAN}

-----------------------------------------------------------------------------
(* State machine *)

Names == {QueueNames[i] : i \in DOMAIN QueueNames}

\* no Queue.work() call is running
WorkIdle ==
    /\ pc = "idle"
    /\ wq = QueueNames[1]
    /\ response = None
    /\ job = None
    /\ exc = None
    /\ calls = <<>>
    /\ invocations = <<>>
    /\ output = None
    /\ finishes = <<>>
    /\ handled = <<>>
    /\ ret = None
    /\ raised = None

\* the events that are handed to RealtimeWakeupService.register_worker:
\* the WorkerThread's wakeup_event and two events of other callers
Events == {"wakeup_event", "event1", "event2"}

\* no WorkerThread has been constructed; its fields hold what the
\* constructor will give them
NoThread ==
    /\ lpc = "none"
    /\ qi = 1
    /\ dispatched = <<>>
    /\ found_jobs = FALSE
    /\ consecutive_failures = [q \in Names |-> 0]
    /\ current_backoff = config.worker_idle_wait
    /\ elapsed = 0
    /\ thread_service = FALSE

\* RealtimeBaseListener.__init__: no thread, _connected clear; _run starts
\* with backoff = 1.0
NoListener ==
    /\ io = "none"
    /\ io_backoff = 0
    /\ connected = FALSE
    /\ io_delays = <<>>

\* no RealtimeWakeupService has been constructed
NoService ==
    /\ service = "none"
    /\ monitored = {}
    /\ worker_events = {}
    /\ event_set = [e \in Events |-> FALSE]
    /\ NoListener

\* the provider holds no message and nothing has been sent or invoked
EmptyStore ==
    /\ messages = [q \in Names \cup {DlqName} |-> <<>>]
    /\ sent = <<>>
    /\ runs = <<>>

\* no start() or stop() call has been followed
NoCalls ==
    /\ thread = 0
    /\ threads = <<>>
    /\ api_calls = <<>>

\* Worker(): is_running is clear, realtime_service is None and
\* _shutdown_count is 0
NotStarted ==
    /\ is_running = FALSE
    /\ realtime_service = FALSE
    /\ main = "constructed"
    /\ block = FALSE
    /\ handler = "none"
    /\ shutdown_count = 0
    /\ process = "alive"

\* Logger(): the queue is empty and nobody iterates events()
LoggerEmpty ==
    /\ log_queue = <<>>
    /\ enqueued = <<>>
    /\ consumer = "idle"
    /\ delivered = <<>>

Constructed ==
    NoThread /\ NoService /\ NotStarted /\ LoggerEmpty /\ EmptyStore /\ NoCalls

\* Worker.assign has registered every queue; no work() call has run yet.
Init ==
    /\ \E c \in Configs : queues = [q \in Names |-> c]
    /\ config = DefaultConfig
    /\ WorkIdle
    /\ Constructed

\* Queue.work, first step: job = self.next(); return None when there is none.
\* An exception next() does not catch leaves work() before its try block.
\* answers: what the provider may answer to the call.
Fetch(q, answers) ==
    /\ pc = "idle"
    /\ \E resp \in answers :
        LET error == IF resp.kind = "raise" THEN resp.error ELSE None
            thrown == error # None /\ ~next_catches(error)
            j == IF error # None THEN None ELSE next_result(resp)
        IN  /\ response' = resp
            /\ calls' = <<Logged(next_call(q), error)>>
            /\ job' = j
            /\ raised' = IF thrown THEN error ELSE None
            /\ pc' = IF j = None THEN "done" ELSE "fetched"
    /\ wq' = q
    /\ exc' = None
    /\ invocations' = <<>>
    /\ output' = None
    /\ finishes' = <<>>
    /\ handled' = <<>>
    /\ ret' = None
    /\ UNCHANGED <<queues, workervars>>

WorkNext(q) == Fetch(q, Responses(q)) /\ UNCHANGED <<storevars, apivars>>

\* Queue.work, try block: run(job) returns; finish(job); return result.
\* finish_errors: what the archive/delete call of finish() may raise (None:
\* it returns).
RunReturns(finish_errors) ==
    /\ pc = "fetched"
    /\ \E o \in Outputs(input_data(job)), provider_error \in finish_errors :
        /\ output' = Some(o)
        /\ calls' = calls \o finish_calls(wq, job, provider_error)
        /\ finishes' = <<finish_result(job, provider_error)>>
        /\ ret' = o
    /\ invocations' = <<run_invocation(wq, job)>>
    /\ pc' = "done"
    /\ UNCHANGED <<queues, wq, response, job, exc, handled, raised, workervars>>

WorkRunReturns == RunReturns({None, FinishError}) /\ UNCHANGED <<storevars, apivars>>

\* Queue.work, try block: run(job) raises e.  An e that `except Exception`
\* does not match leaves work() at once.
\* errors: what Runnable.invoke may raise.
RunRaises(errors) ==
    /\ pc = "fetched"
    /\ \E e \in errors :
        /\ exc' = e
        /\ pc' = IF work_catches(e) THEN "failed" ELSE "done"
        /\ raised' = IF work_catches(e) THEN None ELSE e
    /\ invocations' = <<run_invocation(wq, job)>>
    /\ UNCHANGED <<queues, wq, response, job, calls, output, finishes,
                   handled, ret, workervars>>

WorkRunRaises == RunRaises(InvokeErrors) /\ UNCHANGED <<storevars, apivars>>

\* Queue.work, `except Exception as e`: on_error, then retry, dead-letter or
\* finish.  handler_error, dlq_error, provider_error: what on_error, the DLQ
\* send and the archive/delete call raise (None: they return).
ExceptHandler(dlq_errors, provider_errors) ==
    /\ pc = "failed"
    /\ \E handler_error \in {None, HandlerError},
          dlq_error \in dlq_errors,
          provider_error \in provider_errors :
        LET out == except_outcome(wq, job, exc, dlq_error, provider_error)
        IN  /\ handled' = on_error_calls(wq, job, exc, handler_error)
            /\ calls' = calls \o out.calls
            /\ finishes' = out.finishes
            /\ raised' = out.raised
    /\ ret' = None
    /\ pc' = "done"
    /\ UNCHANGED <<queues, wq, response, job, exc, invocations, output,
                   workervars>>

WorkExcept ==
    /\ ExceptHandler({None, SendError}, {None, FinishError})
    /\ UNCHANGED <<storevars, apivars>>

\* the caller has taken what work() returned or raised
WorkTaken ==
    /\ pc' = "idle"
    /\ wq' = QueueNames[1]
    /\ response' = None
    /\ job' = None
    /\ exc' = None
    /\ calls' = <<>>
    /\ invocations' = <<>>
    /\ output' = None
    /\ finishes' = <<>>
    /\ handled' = <<>>
    /\ ret' = None
    /\ raised' = None

\* Worker.work(queue): the caller takes what work() returned or raised.
WorkReturn ==
    /\ pc = "done"
    /\ WorkTaken
    /\ UNCHANGED <<queues, workervars, storevars, apivars>>

\* Queue.finish(job), called by the holder of a job that next() returned
FinishCall ==
    /\ pc = "fetched"
    /\ Len(finishes) < MaxFinish
    /\ \E provider_error \in {None, FinishError} :
        /\ calls' = calls \o finish_calls(wq, job, provider_error)
        /\ finishes' = Append(finishes, finish_result(job, provider_error))
    /\ UNCHANGED <<queues, pc, wq, response, job, exc, invocations, output,
                   handled, ret, raised, workervars, storevars, apivars>>

NextFinish ==
    \/ \E q \in Names : WorkNext(q)
    \/ FinishCall

\* a caller that fetches a job with next() and calls finish(job) on it,
\* more than once
SpecFinish == Init /\ [][NextFinish]_vars

Next ==
    \/ \E q \in Names : WorkNext(q)
    \/ WorkRunReturns
    \/ WorkRunRaises
    \/ WorkExcept
    \/ WorkReturn

Spec == Init /\ [][Next]_vars

-----------------------------------------------------------------------------
(* WorkerThread: the worker loop *)

\* The logger calls of the loop are left out: they only put events on the
\* Logger's unbounded queue, which no step of the loop reads.  The local
\* had_errors is set in the loop and never read; it is left out too.

\* the queues the loop works on are registered with one of these arguments
LoopConfigs ==
    { c \in Configs :
        /\ c.timeout = TimeoutDefault
        /\ ~c.delete_on_finish
        /\ c.max_retries = Some(1)
        /\ c.dlq # None
        /\ ~c.on_error }

\* what the provider answers to the loop's fetches: no job, job 1 at its
\* first or second read, or an error
LoopResponses(q) ==
    { r \in Responses(q) :
        \/ r.kind = "read" /\ r.jobs = <<>>
        \/ r.kind = "read" /\ Len(r.jobs) = 1
             /\ r.jobs[1].id = 1
             /\ r.jobs[1].attempt \in {0, 1}
             /\ r.jobs[1].data = [key |-> "value"]
        \/ r.kind = "raise" /\ r.error.cls = "Exception" }

\* (mutant) a loop that treats no exception as a shutdown request
is_shutdown_never(e) == FALSE

\* `except (KeyboardInterrupt, SystemExit)` of the loop
is_shutdown(e) == e.cls \in {"KeyboardInterrupt", "SystemExit"}

\* (mutant) a loop whose `except` around work() takes every exception
loop_catches_all(e) == TRUE

\* `except Exception` of the loop, around work() and around the iteration
loop_catches(e) == e.cls \notin {"KeyboardInterrupt", "SystemExit"}

\* config.queue_backoff_multiplier ** (failure_count - 1) raises
\* OverflowError when the power is beyond the float range
pow_overflows(f) ==
    config.queue_backoff_multiplier.log2 * (f - 1) >= FloatMaxExp

Min(a, b) == IF a <= b THEN a ELSE b

\* (mutant) the backoff without its upper limit
backoff_unlimited(idle_wait, f) ==
    LET e == config.queue_backoff_multiplier.log2 * (f - 1)
    IN  IF e >= 20 THEN 2 ^ 20 ELSE idle_wait * (2 ^ e)

\* min(idle_wait * multiplier ** (f - 1), queue_max_backoff); a product of
\* 2 ** 20 ticks or more is above every queue_max_backoff of the model
backoff(idle_wait, f) ==
    LET e == config.queue_backoff_multiplier.log2 * (f - 1)
    IN  IF e >= 20
        THEN config.queue_max_backoff
        ELSE Min(idle_wait * (2 ^ e), config.queue_max_backoff)

\* the thread has been constructed and run() has not returned
InLoop ==
    lpc \in {"while", "for", "work", "presence_busy", "after_for",
             "presence_idle", "sleep"}

\* line 77: while self.running.is_set(); a pass of the loop begins
LoopWhile ==
    /\ process = "alive"
    /\ lpc = "while"
    /\ IF is_running
       THEN lpc' = "for" /\ qi' = 1 /\ found_jobs' = FALSE
            /\ dispatched' = <<>>
       ELSE lpc' = "exited" /\ UNCHANGED <<qi, found_jobs, dispatched>>
    /\ UNCHANGED <<queues, workvars, config, iovars, storevars, apivars,
                   consecutive_failures, current_backoff, elapsed,
                   thread_service, rtvars, mainvars, logvars>>

\* (mutant) a for loop over the queues in reverse order
values_reversed(i) == QueueNames[Len(QueueNames) + 1 - i]

\* line 82: self.queues.values(): the i-th queue in the order of the
\* Worker.assign calls (Worker.queues is an OrderedDict)
values(i) == QueueNames[i]

\* (mutant) a for loop that goes on when the running flag is cleared
for_breaks_never(running) == FALSE

\* lines 83-84: if not self.running.is_set(): break
for_breaks(running) == ~running

\* lines 82-90: the for loop takes the next queue, leaves on a cleared
\* running flag, and calls queue.work()
LoopFor ==
    /\ process = "alive"
    /\ lpc = "for"
    /\ IF qi > Len(QueueNames) \/ for_breaks(is_running)
       THEN lpc' = "after_for" /\ UNCHANGED dispatched
       ELSE /\ consecutive_failures[values(qi)] < MaxFailures
            /\ lpc' = "work"
            /\ dispatched' = Append(dispatched, values(qi))
    /\ UNCHANGED <<queues, workvars, config, iovars, storevars, apivars, qi,
                   found_jobs,
                   consecutive_failures, current_backoff, elapsed,
                   thread_service, rtvars, mainvars, logvars>>

\* queue.work() of the loop, step by step
LoopWorkNext ==
    /\ process = "alive"
    /\ lpc = "work"
    /\ Fetch(values(qi), LoopResponses(values(qi)))
    /\ UNCHANGED <<storevars, apivars>>

LoopWorkRunReturns == process = "alive" /\ lpc = "work" /\ WorkRunReturns

LoopWorkRunRaises == process = "alive" /\ lpc = "work" /\ WorkRunRaises

LoopWorkExcept == process = "alive" /\ lpc = "work" /\ WorkExcept

\* hasattr(result, "id")
has_id(result) == "object" \in DOMAIN result

\* (mutant) an event loop that refuses every callback
call_soon_raises_always(position) == TRUE

\* RealtimeBaseListener._loop as update_presence finds it: line 93 returns
\* unless the loop is set and running; call_soon_threadsafe at line 102
\* raises RuntimeError on a closed loop, and self._loop is None (an
\* AttributeError) once _run_loop has ended.  position: where the IO thread
\* is.
loop_is_running(position) ==
    position \in {"while", "connect", "wait", "listen", "disconnect"}

call_soon_raises(position) == position \in {"closed", "ended"}

\* (mutant) a handler that backs off from the first failure on
CountFailure_from_first(q) ==
    LET f == consecutive_failures[q] + 1
    IN  /\ consecutive_failures' = [consecutive_failures EXCEPT ![q] = f]
        /\ IF pow_overflows(f + 1)
           THEN /\ lpc' = "while"
                /\ UNCHANGED <<qi, current_backoff>>
           ELSE /\ lpc' = "for"
                /\ qi' = qi + 1
                /\ current_backoff' = backoff(config.worker_idle_wait, f + 1)

\* lines 104-130: `except Exception` around queue.work() and the presence
\* update: the failure is counted and, from the second failure in a row,
\* the backoff is computed.  An OverflowError of the power leaves the for
\* loop for the outer `except Exception`, which logs it: back to line 77.
CountFailure(q) ==
    LET f == consecutive_failures[q] + 1
    IN  /\ consecutive_failures' = [consecutive_failures EXCEPT ![q] = f]
        /\ IF f > 1 /\ pow_overflows(f)
           THEN /\ lpc' = "while"
                /\ UNCHANGED <<qi, current_backoff>>
           ELSE /\ lpc' = "for"
                /\ qi' = qi + 1
                /\ current_backoff' =
                       IF f > 1
                       THEN backoff(config.worker_idle_wait, f)
                       ELSE current_backoff

\* lines 92-130 and 162-177: the loop takes what work() returned or raised.
\* With a result that has an id, a loop with a realtime service calls
\* update_presence("busy", ...), whose line 93 is part of this step.
LoopWorkDone ==
    /\ process = "alive"
    /\ lpc = "work"
    /\ pc = "done"
    /\ LET q == values(qi)
       IN  CASE raised = None /\ ret # None ->
                  /\ found_jobs' = TRUE
                  /\ consecutive_failures' =
                         [consecutive_failures EXCEPT ![q] = 0]
                  /\ current_backoff' = config.worker_idle_wait
                  /\ IF thread_service /\ has_id(ret) /\ loop_is_running(io)
                     THEN lpc' = "presence_busy" /\ UNCHANGED qi
                     ELSE lpc' = "for" /\ qi' = qi + 1
                  /\ UNCHANGED is_running
             [] raised = None /\ ret = None ->
                  /\ lpc' = "for"
                  /\ qi' = qi + 1
                  /\ UNCHANGED <<found_jobs, consecutive_failures,
                                 current_backoff, is_running>>
             [] raised # None /\ loop_catches(raised) ->
                  /\ CountFailure(q)
                  /\ UNCHANGED <<found_jobs, is_running>>
             [] raised # None /\ ~loop_catches(raised)
                    /\ is_shutdown(raised) ->
                  /\ is_running' = FALSE
                  /\ lpc' = "exited"
                  /\ UNCHANGED <<qi, found_jobs, consecutive_failures,
                                 current_backoff>>
             [] OTHER ->
                  \* the exception leaves run(): the thread dies
                  /\ lpc' = "crashed"
                  /\ UNCHANGED <<qi, found_jobs, consecutive_failures,
                                 current_backoff, is_running>>
    /\ WorkTaken
    /\ UNCHANGED <<queues, config, iovars, storevars, apivars, dispatched, elapsed,
                   thread_service, rtvars, realtime_service, main, block,
                   handler, shutdown_count, process, logvars>>

\* update_presence("busy", ...), line 102, inside the try of lines 87-102: an
\* exception of call_soon_threadsafe is taken by `except Exception` at
\* line 104 as a failure of the queue
LoopPresenceBusy ==
    /\ process = "alive"
    /\ lpc = "presence_busy"
    /\ IF call_soon_raises(io)
       THEN CountFailure(values(qi))
       ELSE /\ lpc' = "for"
            /\ qi' = qi + 1
            /\ UNCHANGED <<consecutive_failures, current_backoff>>
    /\ UNCHANGED <<queues, workvars, config, iovars, storevars, apivars, dispatched,
                   found_jobs, elapsed, thread_service, rtvars, mainvars,
                   logvars>>

\* lines 143-144: sleep_start = time.time(); self.wakeup_event.clear()
SleepStart ==
    /\ lpc' = "sleep"
    /\ elapsed' = 0
    /\ event_set' = [event_set EXCEPT !["wakeup_event"] = FALSE]

\* (mutant) a loop that idles after every pass
idles_always(found) == TRUE

\* lines 133 and 136: `if not found_jobs`
idles(found) == ~found

\* lines 132-144: after the for loop.  With no job found, a loop with a
\* realtime service calls update_presence("idle", {}), whose line 93 is part
\* of this step, and the idle sleep starts.
LoopAfterFor ==
    /\ process = "alive"
    /\ lpc = "after_for"
    /\ IF ~idles(found_jobs)
       THEN /\ lpc' = "while"
            /\ UNCHANGED <<elapsed, event_set>>
       ELSE IF thread_service /\ loop_is_running(io)
       THEN /\ lpc' = "presence_idle"
            /\ UNCHANGED <<elapsed, event_set>>
       ELSE SleepStart
    /\ UNCHANGED <<queues, workvars, config, iovars, storevars, apivars, qi,
                   dispatched, found_jobs, consecutive_failures,
                   current_backoff, thread_service, service, monitored,
                   worker_events, mainvars, logvars>>

\* update_presence("idle", {}), line 102, outside the inner try: an exception
\* of call_soon_threadsafe is taken by the outer `except Exception` at
\* line 168, which logs it, and the loop is back at line 77 without a sleep
LoopPresenceIdle ==
    /\ process = "alive"
    /\ lpc = "presence_idle"
    /\ IF call_soon_raises(io)
       THEN /\ lpc' = "while"
            /\ UNCHANGED <<elapsed, event_set>>
       ELSE SleepStart
    /\ UNCHANGED <<queues, workvars, config, iovars, storevars, apivars, qi,
                   dispatched, found_jobs, consecutive_failures,
                   current_backoff, thread_service, service, monitored,
                   worker_events, mainvars, logvars>>

\* (mutant) a sleep that never times out
sleep_over_never(t, b) == FALSE

\* line 146: the sleep is over when (time.time() - sleep_start) <
\* self.current_backoff no longer holds
sleep_over(t, b) == ~(t < b)

\* lines 146-160: one pass of the sleep loop: the time check, the running
\* check, the wake check, then time.sleep(0.1).  After the sleep loop line
\* 159 reads the running flag again and breaks; a flag cleared by then is
\* found cleared at line 77 as well.
LoopSleep ==
    /\ process = "alive"
    /\ lpc = "sleep"
    /\ IF sleep_over(elapsed, current_backoff)
       THEN /\ lpc' = IF is_running THEN "while" ELSE "exited"
            /\ UNCHANGED <<elapsed, current_backoff>>
       ELSE IF ~is_running
       THEN /\ lpc' = "exited"
            /\ UNCHANGED <<elapsed, current_backoff>>
       ELSE IF event_set["wakeup_event"]
       THEN /\ current_backoff' = config.worker_idle_wait
            /\ lpc' = "while"
            /\ UNCHANGED elapsed
       ELSE /\ elapsed' = elapsed + 1
            /\ UNCHANGED <<lpc, current_backoff>>
    /\ UNCHANGED <<queues, workvars, config, iovars, storevars, apivars, qi, dispatched,
                   found_jobs,
                   consecutive_failures, thread_service, rtvars, mainvars,
                   logvars>>

\* (mutant) a loop that leaves its wake event registered
unregister_worker_keeps(events, e) == events

\* RealtimeWakeupService.unregister_worker: self._worker_events.discard
unregister_worker(events, e) == events \ {e}

\* RealtimeWakeupService.register_worker: self._worker_events.add
register_worker(events, e) == events \cup {e}

\* lines 180-182: after the loop the thread unregisters its wake event
LoopExit ==
    /\ process = "alive"
    /\ lpc = "exited"
    /\ lpc' = "terminated"
    /\ worker_events' = IF thread_service
                        THEN unregister_worker(worker_events, "wakeup_event")
                        ELSE worker_events
    /\ UNCHANGED <<queues, workvars, config, iovars, storevars, apivars, qi, dispatched,
                   found_jobs,
                   consecutive_failures, current_backoff, elapsed,
                   thread_service, service, monitored, event_set, mainvars,
                   logvars>>

\* the steps of the WorkerThread
LoopStep ==
    \/ LoopWhile
    \/ LoopFor
    \/ LoopWorkNext
    \/ LoopWorkRunReturns
    \/ LoopWorkRunRaises
    \/ LoopWorkExcept
    \/ LoopWorkDone
    \/ LoopPresenceBusy
    \/ LoopAfterFor
    \/ LoopPresenceIdle
    \/ LoopSleep
    \/ LoopExit

-----------------------------------------------------------------------------
(* Logger *)

\* log events, and the sentinel Logger.stop() puts on the queue
LogEvent(level, msg) == [level |-> level, msg |-> msg]
Sentinel == None

\* (mutant) a queue.Queue(maxsize=1): put() blocks on a full queue
put_blocks_bounded(n) == n >= 1

\* Logger._queue is queue.Queue() without maxsize: put() never waits
put_blocks(n) == FALSE

\* self._queue.put(item), for the items in order
Put(items) ==
    /\ log_queue' = log_queue \o items
    /\ enqueued' = enqueued \o items

\* Logger.log_event, from any thread
ProducerEvents == {LogEvent("INFO", "a"), LogEvent("ERROR", "b")}

LogProduce(e) ==
    /\ Len(enqueued) < MaxLog
    /\ ~put_blocks(Len(log_queue))
    /\ Put(<<e>>)
    /\ UNCHANGED <<queues, workvars, config, iovars, storevars, apivars, loopvars,
                   rtvars, mainvars,
                   consumer, delivered>>

\* Logger.stop
LoggerStop ==
    /\ Len(enqueued) < MaxLog
    /\ ~put_blocks(Len(log_queue))
    /\ Put(<<Sentinel>>)
    /\ UNCHANGED <<queues, workvars, config, iovars, storevars, apivars, loopvars,
                   rtvars, mainvars,
                   consumer, delivered>>

\* a thread starts iterating Logger.events(block)
EventsStart(b) ==
    /\ consumer = "idle"
    /\ consumer' = IF b THEN "blocking" ELSE "polling"
    /\ UNCHANGED <<queues, workvars, config, iovars, storevars, apivars, loopvars,
                   rtvars, mainvars,
                   log_queue, enqueued, delivered>>

\* (mutant) events() yielding the sentinel and going on
ends_iteration_never(item) == FALSE

\* `if event is None: break`
ends_iteration(item) == item = Sentinel

\* one pass of the loop of events(): self._queue.get(block=block) waits on
\* an empty queue when block is true and raises queue.Empty otherwise
EventsGet ==
    /\ consumer \in {"blocking", "polling"}
    /\ IF log_queue = <<>>
       THEN /\ consumer = "polling"
            /\ consumer' = "returned"
            /\ UNCHANGED <<log_queue, delivered>>
       ELSE /\ log_queue' = Tail(log_queue)
            /\ IF ends_iteration(Head(log_queue))
               THEN consumer' = "returned" /\ UNCHANGED delivered
               ELSE /\ delivered' = Append(delivered, Head(log_queue))
                    /\ UNCHANGED consumer
    /\ UNCHANGED <<queues, workvars, config, iovars, storevars, apivars, loopvars,
                   rtvars, mainvars,
                   enqueued>>

InitLogger ==
    /\ queues = [q \in Names |-> CHOOSE c \in LoopConfigs : TRUE]
    /\ config = DefaultConfig
    /\ WorkIdle
    /\ Constructed

NextLogger ==
    \/ \E e \in ProducerEvents : LogProduce(e)
    \/ LoggerStop
    \/ \E b \in BOOLEAN : EventsStart(b)
    \/ EventsGet

SpecLogger == InitLogger /\ [][NextLogger]_vars

\* the consumer thread is scheduled: a get() that can return does return
FairLogger == SpecLogger /\ WF_vars(EventsGet)

-----------------------------------------------------------------------------
(* RealtimeWakeupService *)

\* broadcast payloads: for a queue of the worker, for another queue, and
\* without the queue key
Payloads_broadcast ==
    { [queue |-> q, job_id |-> 1] : q \in Names \cup {"q3"} }
        \cup { [job_id |-> 1] }

\* payload.get("queue", "unknown")
payload_queue(payload) ==
    IF "queue" \in DOMAIN payload THEN payload.queue ELSE "unknown"

\* (mutant) a service that wakes its workers on every broadcast
woken_by_any(payload, qs, events) == events

\* _handle_broadcast: the events it sets
woken_by(payload, qs, events) ==
    IF payload_queue(payload) \notin qs THEN {} ELSE events

\* RealtimeWakeupService._handle_broadcast, a callback of the subscribed
\* channel: it runs on the IO thread while _listen sleeps
HandleBroadcast(payload) ==
    /\ process = "alive"
    /\ service # "none"
    /\ io = "listen"
    /\ event_set' =
           [e \in Events |->
               event_set[e] \/ e \in woken_by(payload, monitored, worker_events)]
    /\ UNCHANGED <<queues, workvars, config, iovars, storevars, apivars, loopvars,
                   service, monitored,
                   worker_events, mainvars, logvars>>

\* a caller hands an event to RealtimeWakeupService.register_worker
RegisterWorker(e) ==
    /\ service # "none"
    /\ worker_events' = register_worker(worker_events, e)
    /\ UNCHANGED <<queues, workvars, config, iovars, storevars, apivars, loopvars,
                   service, monitored,
                   event_set, mainvars, logvars>>

\* a caller takes its event back with unregister_worker
UnregisterWorker(e) ==
    /\ service # "none"
    /\ worker_events' = unregister_worker(worker_events, e)
    /\ UNCHANGED <<queues, workvars, config, iovars, storevars, apivars, loopvars,
                   service, monitored,
                   event_set, mainvars, logvars>>

\* the owner of an event clears it (threading.Event.clear)
EventClear(e) ==
    /\ event_set[e]
    /\ event_set' = [event_set EXCEPT ![e] = FALSE]
    /\ UNCHANGED <<queues, workvars, config, iovars, storevars, apivars, loopvars,
                   service, monitored,
                   worker_events, mainvars, logvars>>

\* a started RealtimeWakeupService(queues=...) with no event registered
InitRealtime ==
    /\ queues = [q \in Names |-> CHOOSE c \in LoopConfigs : TRUE]
    /\ config = DefaultConfig
    /\ WorkIdle
    /\ NoThread /\ NotStarted /\ LoggerEmpty /\ EmptyStore /\ NoCalls
    /\ service = "running"
    /\ io = "listen"
    /\ io_backoff = 0
    /\ connected = TRUE
    /\ io_delays = <<>>
    /\ monitored \in {{}, {QueueNames[1]}, Names}
    /\ worker_events = {}
    /\ event_set = [e \in Events |-> FALSE]

NextRealtime ==
    \/ \E e \in Events : RegisterWorker(e)
    \/ \E e \in Events : UnregisterWorker(e)
    \/ \E payload \in Payloads_broadcast : HandleBroadcast(payload)
    \/ \E e \in Events : EventClear(e)

SpecRealtime == InitRealtime /\ [][NextRealtime]_vars

-----------------------------------------------------------------------------
(* RealtimeBaseListener: the IO thread *)

\* _run: max_backoff = 60.0, in seconds
max_backoff == 60

\* self._shutdown.is_set(): stop() has set the event
shutdown_is_set == service = "stopped"

\* (mutant) a delay that doubles without the cap
delay_uncapped(exponent) == 2 ^ exponent

\* min(backoff, max_backoff), with backoff = 2.0 ** exponent
delay(exponent) == Min(2 ^ exponent, max_backoff)

\* _run_loop, lines 103-107: the thread makes its event loop and runs
\* _run() on it; _run starts with backoff = 1.0
IoBegin ==
    /\ process = "alive"
    /\ io = "starting"
    /\ io' = "while"
    /\ io_backoff' = 0
    /\ UNCHANGED <<queues, workvars, config, storevars, apivars, loopvars, rtvars,
                   mainvars, logvars, connected, io_delays>>

\* _run, line 134: while not self._shutdown.is_set()
IoWhile ==
    /\ process = "alive"
    /\ io = "while"
    /\ io' = IF shutdown_is_set THEN "disconnect" ELSE "connect"
    /\ UNCHANGED <<queues, workvars, config, storevars, apivars, loopvars, rtvars,
                   mainvars, logvars, io_backoff, connected, io_delays>>

\* _run, lines 135-153: await self._connect() returns or raises.  It
\* returns: _connected is set, backoff is 1.0 again, _listen begins.  It
\* raises (ImportError of the library, an error of acreate_client,
\* subscribe or track): _connected is cleared and, unless _shutdown is set,
\* the sleep of min(backoff, max_backoff) begins.
\* outcomes: what the attempt may do.
IoConnect(outcomes) ==
    /\ process = "alive"
    /\ io = "connect"
    /\ \E outcome \in outcomes :
        IF outcome = "connected"
        THEN /\ connected' = TRUE
             /\ io_backoff' = 0
             /\ io_delays' = <<>>
             /\ io' = "listen"
        ELSE /\ connected' = FALSE
             /\ IF shutdown_is_set
                THEN io' = "while" /\ UNCHANGED io_delays
                ELSE /\ Len(io_delays) < MaxConnectFailures
                     /\ io' = "wait"
                     /\ io_delays' = Append(io_delays, delay(io_backoff))
             /\ UNCHANGED io_backoff
    /\ UNCHANGED <<queues, workvars, config, storevars, apivars, loopvars, rtvars,
                   mainvars, logvars>>

\* _run, lines 152-153: the sleep is over; backoff *= 2
IoWait ==
    /\ process = "alive"
    /\ io = "wait"
    /\ io' = "while"
    /\ io_backoff' = io_backoff + 1
    /\ UNCHANGED <<queues, workvars, config, storevars, apivars, loopvars, rtvars,
                   mainvars, logvars, connected, io_delays>>

\* _listen: while not self._shutdown.is_set(): await asyncio.sleep(1); it
\* returns once the event is set
IoListen ==
    /\ process = "alive"
    /\ io = "listen"
    /\ shutdown_is_set
    /\ io' = "while"
    /\ UNCHANGED <<queues, workvars, config, storevars, apivars, loopvars, rtvars,
                   mainvars, logvars, io_backoff, connected, io_delays>>

\* _run, lines 156-158: finally: await self._disconnect(), which clears
\* _connected; _run() returns and run_until_complete with it
IoDisconnect ==
    /\ process = "alive"
    /\ io = "disconnect"
    /\ io' = "stopping"
    /\ connected' = FALSE
    /\ UNCHANGED <<queues, workvars, config, storevars, apivars, loopvars, rtvars,
                   mainvars, logvars, io_backoff, io_delays>>

\* _run_loop, lines 113-125: pending tasks are cancelled; self._loop.close()
IoClose ==
    /\ process = "alive"
    /\ io = "stopping"
    /\ io' = "closed"
    /\ UNCHANGED <<queues, workvars, config, storevars, apivars, loopvars, rtvars,
                   mainvars, logvars, io_backoff, connected, io_delays>>

\* _run_loop, line 126: self._loop = None; the thread ends
IoUnset ==
    /\ process = "alive"
    /\ io = "closed"
    /\ io' = "ended"
    /\ UNCHANGED <<queues, workvars, config, storevars, apivars, loopvars, rtvars,
                   mainvars, logvars, io_backoff, connected, io_delays>>

\* RealtimeBaseListener.stop(), lines 83-87: nothing without a live thread;
\* else _shutdown is set (and the caller waits in join(timeout))
ListenerStop ==
    /\ process = "alive"
    /\ service = "running"
    /\ io \notin {"none", "ended"}
    /\ service' = "stopped"
    /\ UNCHANGED <<queues, workvars, config, iovars, storevars, apivars, loopvars,
                   monitored, worker_events, event_set, mainvars, logvars>>

\* RealtimeWakeupService.start() has returned: the thread is started and
\* has not run yet
InitListener ==
    /\ queues = [q \in Names |-> CHOOSE c \in LoopConfigs : TRUE]
    /\ config = DefaultConfig
    /\ WorkIdle
    /\ NoThread /\ NotStarted /\ LoggerEmpty /\ EmptyStore /\ NoCalls
    /\ service = "running"
    /\ io = "starting"
    /\ io_backoff = 0
    /\ connected = FALSE
    /\ io_delays = <<>>
    /\ monitored \in {{}, {QueueNames[1]}, Names}
    /\ worker_events = {}
    /\ event_set = [e \in Events |-> FALSE]

NextListener ==
    \/ IoBegin
    \/ IoWhile
    \/ IoConnect({"connected", "failed"})
    \/ IoWait
    \/ IoListen
    \/ IoDisconnect
    \/ IoClose
    \/ IoUnset
    \/ ListenerStop

\* the IO thread of a started service, with connection attempts that may
\* fail, until and after stop()
SpecListener == InitListener /\ [][NextListener]_vars

\* the IO thread after start(), with a connection that succeeds at once
IoStartup ==
    \/ IoBegin
    \/ IoWhile
    \/ IoConnect({"connected"})

\* the IO thread after stop(): it leaves _listen and ends
IoShutdown ==
    \/ IoListen
    \/ IoWhile
    \/ IoDisconnect
    \/ IoClose
    \/ IoUnset

-----------------------------------------------------------------------------
(* Worker: start, stop and the signal handler, on the main thread *)

\* Worker.start up to the realtime service: the handlers for SIGINT and
\* SIGTERM are installed, and with config.supabase_realtime_enabled a
\* RealtimeWakeupService for the worker's queues is constructed and started
StartBegin(b) ==
    /\ process = "alive"
    /\ main = "constructed"
    /\ main' = "installed"
    /\ block' = b
    /\ IF config.supabase_realtime_enabled /\ ~realtime_service
       THEN /\ realtime_service' = TRUE
            /\ service' = "running"
            /\ io' = "starting"
            /\ monitored' = Names
            /\ Put(<<LogEvent("INFO", "RealtimeWakeupService started"),
                     LogEvent("INFO", "Realtime wake-up service enabled")>>)
       ELSE UNCHANGED <<realtime_service, service, io, monitored, log_queue,
                        enqueued>>
    /\ UNCHANGED <<queues, workvars, config, storevars, apivars, loopvars,
                   io_backoff, connected, io_delays, worker_events,
                   event_set, is_running, handler, shutdown_count, process,
                   consumer, delivered>>

\* Worker.start, lines 452-460: is_running.set(); WorkerThread(...), whose
\* constructor registers its wake event with the service; thread.start()
StartThread ==
    /\ process = "alive"
    /\ main = "installed"
    /\ handler = "none"
    /\ main' = "started"
    /\ is_running' = TRUE
    /\ lpc' = "while"
    /\ consecutive_failures' = [q \in Names |-> 0]
    /\ current_backoff' = config.worker_idle_wait
    /\ thread_service' = realtime_service
    /\ worker_events' = IF realtime_service
                        THEN register_worker(worker_events, "wakeup_event")
                        ELSE worker_events
    /\ event_set' = [event_set EXCEPT !["wakeup_event"] = FALSE]
    /\ UNCHANGED <<queues, workvars, config, iovars, storevars, apivars, qi, dispatched,
                   found_jobs, elapsed,
                   service, monitored, realtime_service, block, handler,
                   shutdown_count, process, logvars>>

\* Worker.start, lines 462-467: if block, self.log(block=block); return.
\* Worker.log calls self.logger.print(...).  Logger.print has a yield in its
\* body: it is a generator function, the call makes a generator object and
\* runs none of the body, and Worker.log drops that object.  Nothing is
\* taken from the Logger's queue and the main thread does not wait.
StartLog ==
    /\ process = "alive"
    /\ main = "started"
    /\ handler = "none"
    /\ main' = "returned"
    /\ UNCHANGED <<queues, workvars, config, iovars, storevars, apivars, loopvars,
                   rtvars, is_running,
                   realtime_service, block, handler, shutdown_count, process,
                   logvars>>

\* Worker.stop up to thread.join: the events it logs
stop_events(was_running, had_service, has_thread) ==
    IF ~was_running THEN <<>>
    ELSE (IF had_service
          THEN <<LogEvent("INFO", "Stopping realtime service...")>>
          ELSE <<>>)
         \o (IF has_thread THEN <<>>
             ELSE <<LogEvent("INFO", "Worker stopped")>>)

\* _signal_handler for SIGINT or SIGTERM, on the main thread between two
\* of its steps.  First signal: stop(), which clears is_running, stops the
\* realtime service and waits in thread.join(timeout=10.0); with nothing to
\* join the handler goes on: log(block=False), logger.stop().  Every later
\* signal: os._exit(1).
Signal ==
    /\ process = "alive"
    /\ main # "constructed"
    /\ shutdown_count < MaxSignals
    /\ shutdown_count' = shutdown_count + 1
    /\ IF shutdown_count + 1 = 1
       THEN LET has_thread == lpc # "none"
                joins == is_running /\ has_thread
            IN  /\ is_running' = FALSE
                /\ realtime_service' =
                       IF is_running THEN FALSE ELSE realtime_service
                /\ service' =
                       IF is_running /\ realtime_service
                       THEN "stopped" ELSE service
                /\ handler' = IF joins THEN "join" ELSE "none"
                /\ Put(<<LogEvent("INFO", "Shutting down gracefully...")>>
                       \o stop_events(is_running, realtime_service,
                                      has_thread)
                       \o (IF joins THEN <<>> ELSE <<Sentinel>>))
                /\ UNCHANGED process
       ELSE /\ process' = "exit1"
            /\ UNCHANGED <<is_running, realtime_service, service, handler,
                           log_queue, enqueued>>
    /\ UNCHANGED <<queues, workvars, config, iovars, storevars, apivars, loopvars,
                   monitored,
                   worker_events, event_set, main, block, consumer,
                   delivered>>

\* thread.join(timeout=10.0) of stop() returns: the thread has ended
\* ("Worker stopped") or the ten seconds are over (a warning); then the
\* rest of the handler: log(block=False), which takes nothing from the
\* queue, and logger.stop()
JoinReturns ==
    /\ process = "alive"
    /\ handler = "join"
    /\ handler' = "none"
    /\ Put(<<IF lpc \in {"terminated", "crashed"}
             THEN LogEvent("INFO", "Worker stopped")
             ELSE LogEvent("WARNING", "Worker thread did not stop")>>
           \o <<Sentinel>>)
    /\ UNCHANGED <<queues, workvars, config, iovars, storevars, apivars, loopvars,
                   rtvars, is_running,
                   realtime_service, main, block, shutdown_count, process,
                   consumer, delivered>>

\* the Worker's queues and the process settings, with the default
\* QUEUE_BACKOFF_MULTIPLIER
InitWorker ==
    /\ \E c \in LoopConfigs : queues = [q \in Names |-> c]
    /\ \E realtime \in BOOLEAN : config = ProcessConfig(1, realtime)
    /\ WorkIdle
    /\ Constructed

NextWorker ==
    \/ \E b \in BOOLEAN : StartBegin(b)
    \/ StartThread
    \/ StartLog
    \/ Signal
    \/ JoinReturns
    \/ LoopStep
    \/ \E payload \in Payloads_broadcast : HandleBroadcast(payload)
    \/ IoStartup

SpecWorker == InitWorker /\ [][NextWorker]_vars

\* Worker.start(block=True) has returned: the handlers are installed, the
\* realtime service runs if it is enabled, is_running is set and the
\* WorkerThread, constructed and started, is about to read the flag
Started ==
    /\ is_running = TRUE
    /\ lpc = "while"
    /\ qi = 1
    /\ dispatched = <<>>
    /\ found_jobs = FALSE
    /\ consecutive_failures = [q \in Names |-> 0]
    /\ current_backoff = config.worker_idle_wait
    /\ elapsed = 0
    /\ thread_service = config.supabase_realtime_enabled
    /\ io = IF config.supabase_realtime_enabled THEN "listen" ELSE "none"
    /\ io_backoff = 0
    /\ connected = config.supabase_realtime_enabled
    /\ io_delays = <<>>
    /\ realtime_service = config.supabase_realtime_enabled
    /\ service = IF config.supabase_realtime_enabled
                 THEN "running" ELSE "none"
    /\ monitored = IF config.supabase_realtime_enabled THEN Names ELSE {}
    /\ worker_events = IF config.supabase_realtime_enabled
                       THEN {"wakeup_event"} ELSE {}
    /\ event_set = [e \in Events |-> FALSE]
    /\ main = "returned"
    /\ block = TRUE
    /\ handler = "none"
    /\ shutdown_count = 0
    /\ process = "alive"
    /\ log_queue =
           IF config.supabase_realtime_enabled
           THEN <<LogEvent("INFO", "RealtimeWakeupService started"),
                  LogEvent("INFO", "Realtime wake-up service enabled")>>
           ELSE <<>>
    /\ enqueued = log_queue
    /\ consumer = "idle"
    /\ delivered = <<>>

InitLoop ==
    /\ \E c \in LoopConfigs : queues = [q \in Names |-> c]
    /\ config \in ProcessConfigs
    /\ WorkIdle
    /\ Started
    /\ EmptyStore
    /\ NoCalls

\* the first termination signal, the graceful one
SignalFirst == shutdown_count = 0 /\ Signal

\* the worker loop of a started Worker, up to its graceful shutdown
NextLoop ==
    \/ LoopStep
    \/ \E payload \in Payloads_broadcast : HandleBroadcast(payload)
    \/ SignalFirst
    \/ JoinReturns

SpecLoop == InitLoop /\ [][NextLoop]_vars

\* Worker.start has returned with the realtime service enabled: the
\* service's thread is started and has not run yet, nothing is connected
InitOffline ==
    /\ \E c \in LoopConfigs : queues = [q \in Names |-> c]
    /\ config = ProcessConfig(1, TRUE)
    /\ WorkIdle
    /\ EmptyStore
    /\ NoCalls
    /\ is_running = TRUE
    /\ lpc = "while"
    /\ qi = 1
    /\ dispatched = <<>>
    /\ found_jobs = FALSE
    /\ consecutive_failures = [q \in Names |-> 0]
    /\ current_backoff = config.worker_idle_wait
    /\ elapsed = 0
    /\ thread_service = TRUE
    /\ io = "starting"
    /\ io_backoff = 0
    /\ connected = FALSE
    /\ io_delays = <<>>
    /\ realtime_service = TRUE
    /\ service = "running"
    /\ monitored = Names
    /\ worker_events = {"wakeup_event"}
    /\ event_set = [e \in Events |-> FALSE]
    /\ main = "returned"
    /\ block = TRUE
    /\ handler = "none"
    /\ shutdown_count = 0
    /\ process = "alive"
    /\ log_queue = <<LogEvent("INFO", "RealtimeWakeupService started"),
                     LogEvent("INFO", "Realtime wake-up service enabled")>>
    /\ enqueued = log_queue
    /\ consumer = "idle"
    /\ delivered = <<>>

\* the IO thread with a connection that never comes about
IoOffline ==
    \/ IoBegin
    \/ IoWhile
    \/ IoConnect({"failed"})
    \/ IoWait

NextOffline ==
    \/ LoopStep
    \/ IoOffline

\* the worker loop of a started Worker whose realtime service fails every
\* connection attempt
SpecOffline == InitOffline /\ [][NextOffline]_vars

-----------------------------------------------------------------------------
(* A provider that honours read leases, and the worker loop on top of it *)

\* a message as the provider stores it
StoredMessage(id, data) ==
    [id |-> id, data |-> data, read_ct |-> 0, visible |-> TRUE]

\* the oldest visible message of a queue: its position, 0 if there is none
first_visible(ms) ==
    IF \E i \in DOMAIN ms : ms[i].visible
    THEN CHOOSE i \in DOMAIN ms :
            ms[i].visible /\ \A k \in 1..(i - 1) : ~ms[k].visible
    ELSE 0

\* ms without its i-th message
without(ms, i) == [k \in 1..(Len(ms) - 1) |-> IF k < i THEN ms[k] ELSE ms[k + 1]]

\* read(queue, vt, 1) and pop(queue): the provider's answer
provider_answer(q, call, ms) ==
    LET i == first_visible(ms)
    IN  IF call.op = "pop"
        THEN [kind |-> "pop",
              job |-> IF i = 0 THEN None
                      ELSE Job(ms[i].id, ms[i].read_ct, ms[i].data, q, TRUE)]
        ELSE [kind |-> "read",
              jobs |-> IF i = 0 THEN <<>>
                       ELSE <<Job(ms[i].id, ms[i].read_ct + 1, ms[i].data,
                                  q, FALSE)>>]

\* ... and what the queue holds afterwards: a popped message is gone, a
\* read one is invisible for vt seconds, its read_ct one higher
provider_fetched(call, ms) ==
    LET i == first_visible(ms)
    IN  IF i = 0 THEN ms
        ELSE IF call.op = "pop" THEN without(ms, i)
        ELSE [ms EXCEPT ![i].read_ct = @ + 1, ![i].visible = FALSE]

\* archive(queue, id) and delete(queue, id): the message leaves the queue
RECURSIVE provider_finalized(_, _)
provider_finalized(ms, logged) ==
    IF logged = <<>> THEN ms
    ELSE LET c == Head(logged).call
             at == {i \in DOMAIN ms : ms[i].id = c.id}
             rest == IF c.op \in {"archive", "delete"} /\ at # {}
                     THEN without(ms, CHOOSE i \in at : TRUE)
                     ELSE ms
         IN  provider_finalized(rest, Tail(logged))

\* Worker.send(queue, data): Queue.send hands the message to the provider,
\* which stores it under the next id
LeaseSend(q, d) ==
    /\ process = "alive"
    /\ Len(sent) < MaxSends
    /\ LET id == Len(sent) + 1
       IN  /\ messages' = [messages EXCEPT
                               ![q] = Append(@, StoredMessage(id, d))]
           /\ sent' = Append(sent, [queue |-> q, id |-> id, data |-> d])
    /\ UNCHANGED <<queues, workvars, workervars, runs, apivars>>

\* the vt seconds of a read are over: the message is visible again
LeaseExpire(q, i) ==
    /\ process = "alive"
    /\ i \in DOMAIN messages[q]
    /\ ~messages[q][i].visible
    /\ messages' = [messages EXCEPT ![q][i].visible = TRUE]
    /\ UNCHANGED <<queues, workvars, workervars, sent, runs, apivars>>

\* queue.work() of the loop over this provider: next()
LeaseWorkNext ==
    /\ process = "alive"
    /\ lpc = "work"
    /\ LET q == values(qi)
       IN  /\ Fetch(q, {provider_answer(q, next_call(q), messages[q])})
           /\ messages' = [messages EXCEPT
                               ![q] = provider_fetched(next_call(q), @)]
    /\ UNCHANGED <<sent, runs, apivars>>

\* ... run(job) returns and finish(job) finalizes
LeaseRunReturns ==
    /\ process = "alive"
    /\ lpc = "work"
    /\ RunReturns({None})
    /\ runs' = Append(runs, [queue |-> wq, id |-> job.id,
                             input |-> run_invocation(wq, job).input])
    /\ messages' = [messages EXCEPT
                        ![wq] = provider_finalized(
                                    @, finish_calls(wq, job, None))]
    /\ UNCHANGED <<sent, apivars>>

\* what the clients send: a payload without and one with a thread_id
SendPayloads == { d \in Payloads : "key" \in DOMAIN d }

\* the queues of a worker whose Runnables do not raise
LeaseConfigs ==
    { c \in Configs : c.max_retries = None /\ c.dlq = None /\ ~c.on_error }

\* a started Worker without realtime service, the provider empty
InitLease ==
    /\ \E c \in LeaseConfigs : queues = [q \in Names |-> c]
    /\ config = DefaultConfig
    /\ WorkIdle
    /\ Started
    /\ EmptyStore
    /\ NoCalls

\* the steps of the worker loop over this provider while it runs
LeaseLoopStep ==
    \/ LoopWhile
    \/ LoopFor
    \/ LeaseWorkNext
    \/ LeaseRunReturns
    \/ LoopWorkDone
    \/ LoopAfterFor
    \/ LoopSleep

NextLease ==
    \/ LeaseLoopStep
    \/ \E q \in Names, d \in SendPayloads : LeaseSend(q, d)
    \/ \E q \in Names, i \in 1..MaxSends : LeaseExpire(q, i)

SpecLease == InitLease /\ [][NextLease]_vars

\* the WorkerThread is scheduled, and the calls it makes return
FairLease == SpecLease /\ WF_vars(LeaseLoopStep)

-----------------------------------------------------------------------------

(* Worker.start and Worker.stop called in any order *)

\* WorkerThread(...): the thread start() constructs and starts.  told: the
\* running flag was cleared while it was alive; service: it was given a
\* realtime service and registered its wake event there
NewThread(with_service) ==
    [alive |-> TRUE, told |-> FALSE, service |-> with_service]

\* the WorkerThreads that are alive
Alive == {i \in DOMAIN threads : threads[i].alive}

\* is_running.clear(): every thread that is alive has been told to stop
told_all(ts) == [i \in DOMAIN ts |-> [ts[i] EXCEPT !.told = @ \/ ts[i].alive]]

\* (mutant) start() without its first test
start_returns_early_never(t, ts) == FALSE

\* line 413: if self.thread and self.thread.is_alive(): return
start_returns_early(t, ts) == t # 0 /\ ts[t].alive

\* Worker.start(block=False), and start(block=True) as well: self.log runs
\* nothing of Logger.print.  After the test of line 413: the realtime
\* service is started if it is enabled and there is none, is_running is
\* set, a WorkerThread is constructed, kept in self.thread and started.
ApiStart ==
    /\ process = "alive"
    /\ Len(api_calls) < MaxCalls
    /\ api_calls' = Append(api_calls, "start")
    /\ IF start_returns_early(thread, threads)
       THEN UNCHANGED <<is_running, realtime_service, service, monitored,
                        worker_events, thread, threads>>
       ELSE LET opens == config.supabase_realtime_enabled
                             /\ ~realtime_service
                has_service == realtime_service \/ opens
            IN  /\ realtime_service' = has_service
                /\ service' = IF opens THEN "running" ELSE service
                /\ monitored' = IF opens THEN Names ELSE monitored
                /\ is_running' = TRUE
                /\ threads' = Append(threads, NewThread(has_service))
                /\ thread' = Len(threads) + 1
                /\ worker_events' =
                       IF has_service
                       THEN register_worker(worker_events, "wakeup_event")
                       ELSE worker_events
    /\ UNCHANGED <<queues, workvars, config, loopvars, event_set, main, block,
                   handler, shutdown_count, process, logvars, iovars,
                   storevars>>

\* (mutant) stop() without its test of the running flag
stop_returns_early_never(running) == FALSE

\* line 471: everything stop() does is under `if self.is_running.is_set()`
stop_returns_early(running) == ~running

\* the thread has left its loop: it is dead, and has unregistered its wake
\* event if it had a service
ended(ts, i) == [ts EXCEPT ![i].alive = FALSE]

unregistered(events, t) ==
    IF t.service THEN unregister_worker(events, "wakeup_event") ELSE events

\* Worker.stop(): with the flag set it clears the flag, stops the realtime
\* service, and joins self.thread for ten seconds.  joined: the thread
\* ended within the ten seconds and self.thread becomes None; otherwise
\* the join timed out and self.thread stays.
ApiStop ==
    /\ process = "alive"
    /\ Len(api_calls) < MaxCalls
    /\ api_calls' = Append(api_calls, "stop")
    /\ IF stop_returns_early(is_running)
       THEN UNCHANGED <<is_running, realtime_service, service,
                        worker_events, thread, threads>>
       ELSE /\ is_running' = FALSE
            /\ realtime_service' = FALSE
            /\ service' = IF realtime_service THEN "stopped" ELSE service
            /\ IF thread = 0
               THEN /\ threads' = told_all(threads)
                    /\ UNCHANGED <<thread, worker_events>>
               ELSE \E joined \in IF threads[thread].alive
                                  THEN BOOLEAN ELSE {TRUE} :
                      IF joined
                      THEN /\ threads' = ended(told_all(threads), thread)
                           /\ thread' = 0
                           /\ worker_events' =
                                  IF threads[thread].alive
                                  THEN unregistered(worker_events,
                                                    threads[thread])
                                  ELSE worker_events
                      ELSE /\ threads' = told_all(threads)
                           /\ UNCHANGED <<thread, worker_events>>
    /\ UNCHANGED <<queues, workvars, config, loopvars, monitored, event_set,
                   main, block, handler, shutdown_count, process, logvars,
                   iovars, storevars>>

\* WorkerThread.run, lines 77 and 147-160: a thread that finds the flag
\* cleared leaves its loop, unregisters its wake event and ends
ThreadEnds(i) ==
    /\ i \in Alive
    /\ ~is_running
    /\ threads' = ended(threads, i)
    /\ worker_events' = unregistered(worker_events, threads[i])
    /\ UNCHANGED <<queues, workvars, config, loopvars, service, monitored,
                   event_set, mainvars, logvars, iovars, storevars, thread,
                   api_calls>>

\* WorkerThread.run, lines 162-166: a Runnable raised KeyboardInterrupt or
\* SystemExit; the thread clears the flag itself and breaks
ThreadInterrupted(i) ==
    /\ i \in Alive
    /\ is_running
    /\ is_running' = FALSE
    /\ threads' = told_all(threads)
    /\ UNCHANGED <<queues, workvars, config, loopvars, rtvars,
                   realtime_service, main, block, handler, shutdown_count,
                   process, logvars, iovars, storevars, thread, api_calls>>

InitApi ==
    /\ \E c \in LoopConfigs : queues = [q \in Names |-> c]
    /\ \E realtime \in BOOLEAN : config = ProcessConfig(1, realtime)
    /\ WorkIdle
    /\ Constructed

NextApi ==
    \/ ApiStart
    \/ ApiStop
    \/ \E i \in 1..MaxCalls : ThreadEnds(i)
    \/ \E i \in 1..MaxCalls : ThreadInterrupted(i)

\* a Worker whose start() and stop() are called in any order by one caller
SpecApi == InitApi /\ [][NextApi]_vars

-----------------------------------------------------------------------------
(* Worker.work(queue) called again and again on a Runnable that raises *)

\* send(queue, data) that returned: the message is stored under the next
\* id of its queue
provider_sent(ms, logged) ==
    IF logged.call.op = "send" /\ logged.error = None
    THEN Append(ms, StoredMessage(Len(ms) + 1, logged.call.data))
    ELSE ms

\* the provider after the calls of an exception handler: a DLQ send that
\* returned has stored its envelope in the dlq queue, an archive or delete
\* that returned has removed the job; a call that raised has done nothing
RECURSIVE provider_handled(_, _, _)
provider_handled(store, q, logged) ==
    IF logged = <<>> THEN store
    ELSE LET c == Head(logged)
             next == IF c.call.op = "send"
                     THEN [store EXCEPT
                              ![c.call.queue] = provider_sent(@, c)]
                     ELSE IF provider_removes(c)
                     THEN [store EXCEPT
                              ![q] = provider_finalized(@, <<c>>)]
                     ELSE store
         IN  provider_handled(next, q, Tail(logged))

\* work(): next() over this provider
RetryNext(q) ==
    /\ process = "alive"
    /\ Fetch(q, {provider_answer(q, next_call(q), messages[q])})
    /\ messages' = [messages EXCEPT ![q] = provider_fetched(next_call(q), @)]
    /\ UNCHANGED <<sent, runs, apivars>>

\* what the Runnable of these queues raises: an Exception, or a
\* BaseException that is none
RetryErrors ==
    { e \in InvokeErrors : e.cls \in {"RuntimeError", "KeyboardInterrupt"} }

\* ... run(job) raises
RetryRunRaises(errors) ==
    /\ RunRaises(errors)
    /\ runs' = Append(runs, [queue |-> wq, id |-> job.id,
                             attempt |-> job.attempt, error |-> exc'])
    /\ UNCHANGED <<messages, sent, apivars>>

\* a caller that took a KeyboardInterrupt or SystemExit from work() makes
\* no further call
RetryReturn ==
    /\ IF raised = None THEN TRUE ELSE work_catches(raised)
    /\ WorkReturn

\* a client sends a job
RetrySend(q) ==
    /\ Len(sent) < MaxRetryJobs
    /\ LeaseSend(q, [key |-> "value"])

\* ... the exception handler, and what its calls do to the provider
RetryExcept(dlq_errors, provider_errors) ==
    /\ ExceptHandler(dlq_errors, provider_errors)
    /\ messages' =
           provider_handled(messages, wq,
                            SubSeq(calls', Len(calls) + 1, Len(calls')))
    /\ UNCHANGED <<sent, runs, apivars>>

\* the lease of a message expires; the model stops redelivering a message
\* that was read more than MaxAttempt times
RetryExpire(q, i) ==
    /\ i \in DOMAIN messages[q]
    /\ messages[q][i].read_ct <= MaxAttempt
    /\ LeaseExpire(q, i)

\* read-mode queues with a retry limit M >= 1, with and without a DLQ
RetryConfigs ==
    { c \in Configs :
        /\ c.timeout = TimeoutDefault
        /\ ~c.delete_on_finish
        /\ c.max_retries \notin {None, Some(0)}
        /\ ~c.on_error }

InitRetry ==
    /\ \E c \in RetryConfigs : queues = [q \in Names |-> c]
    /\ config = DefaultConfig
    /\ WorkIdle
    /\ Constructed

\* the steps of the caller of work() and of the calls it makes
RetryCaller(errors, dlq_errors, provider_errors) ==
    \/ \E q \in Names : RetryNext(q)
    \/ RetryRunRaises(errors)
    \/ RetryExcept(dlq_errors, provider_errors)
    \/ RetryReturn

Redelivery == \E q \in Names, i \in 1..MaxRetryJobs : RetryExpire(q, i)

Sending == \E q \in Names : RetrySend(q)

NextRetry ==
    \/ RetryCaller(RetryErrors, {None}, {None})
    \/ Redelivery
    \/ Sending

\* a caller polling the queues of a provider on which every send, archive
\* and delete succeeds
SpecRetry == InitRetry /\ [][NextRetry]_vars

\* the caller's calls return and it comes back to each of its queues, as
\* the for loop of WorkerThread.run does in every pass; the vt seconds of
\* every read pass
FairRetry ==
    /\ SpecRetry
    /\ WF_vars(RetryCaller(RetryErrors, {None}, {None}))
    /\ \A q \in Names : SF_vars(RetryNext(q))
    /\ \A q \in Names, i \in 1..MaxRetryJobs : WF_vars(RetryExpire(q, i))

NextDead ==
    \/ RetryCaller({e \in RetryErrors : work_catches(e)},
                   {None}, {None, FinishError})
    \/ Redelivery
    \/ Sending

\* the same caller, its Runnable raising Exceptions only, over a provider
\* whose archive and delete may raise
SpecDead == InitRetry /\ [][NextDead]_vars

-----------------------------------------------------------------------------

\* a started Worker with the realtime service enabled
InitPresence ==
    /\ \E c \in LoopConfigs : queues = [q \in Names |-> c]
    /\ config = ProcessConfig(1, TRUE)
    /\ WorkIdle
    /\ Started
    /\ EmptyStore
    /\ NoCalls

NextPresence ==
    \/ NextLoop
    \/ IoShutdown

\* the worker loop next to the IO thread of the realtime service, which
\* ends after the stop() of the graceful shutdown
SpecPresence == InitPresence /\ [][NextPresence]_vars

\* the stretch of a pass between its last fetch and the start of the idle
\* sleep: the for loop is over, no job was found, line 144 has not run
BeforeSleep == lpc \in {"after_for", "presence_idle"} /\ ~found_jobs

\* a broadcast the IO thread handles while the loop is in that stretch
BroadcastBeforeSleep ==
    /\ BeforeSleep
    /\ \E payload \in Payloads_broadcast : HandleBroadcast(payload)

InitWake == InitLoop /\ config.supabase_realtime_enabled

NextWake ==
    \/ LoopStep
    \/ BroadcastBeforeSleep

\* a started worker loop with a realtime service whose broadcasts all
\* arrive between the last fetch of a pass and the start of its idle sleep
SpecWake == InitWake /\ [][NextWake]_vars

\* the WorkerThread is scheduled, and the calls it makes return
FairLoop == SpecLoop /\ WF_vars(LoopStep)

-----------------------------------------------------------------------------
(* Properties of Queue.work *)

\* KeyboardInterrupt and SystemExit: BaseExceptions that are no Exception
NoException(e) == e.cls \in {"KeyboardInterrupt", "SystemExit"}

\* positions in the call log of the calls whose operation is in ops
CallsOf(ops) == {i \in DOMAIN calls : calls[i].call.op \in ops}

Finalizations == CallsOf({"archive", "delete"})
Sends == CallsOf({"send"})

\* the retry limit M of the queue being worked: its max_retries, or the
\* global default when max_retries is None
M == IF queues[wq].max_retries = None
     THEN queue_max_retries
     ELSE queues[wq].max_retries.val

\* work() has ended after Runnable.invoke raised
Failed == pc = "done" /\ exc # None

\* work() has ended after Runnable.invoke returned
Succeeded == pc = "done" /\ output # None

\* the finalization call the queue's delete_on_finish setting asks for
ExpectedFinalization ==
    IF queues[wq].delete_on_finish
    THEN DeleteCall(wq, job.id)
    ELSE ArchiveCall(wq, job.id)

\* C1: a work() call issues at most one finalization call for the job it
\* fetched (one archive and no delete, or one delete and no archive, always
\* for that job on its queue), and none at all when the job was popped.
C1_FinalizeAtMostOnce ==
    /\ Cardinality(Finalizations) <= 1
    /\ \A i \in Finalizations :
        /\ job # None
        /\ calls[i].call.queue = wq
        /\ calls[i].call.id = job.id
    /\ (job # None /\ job.popped) => Finalizations = {}

C1_Witness ==
    /\ pc = "done"
    /\ job # None /\ ~job.popped
    /\ Cardinality(CallsOf({"archive"})) = 1
    /\ CallsOf({"delete"}) = {}

DlqSendSucceeded ==
    /\ Failed /\ job.attempt >= M /\ queues[wq].dlq # None
    /\ \E i \in Sends : calls[i].error = None

\* the DLQ send of a terminal failure was made and raised
DlqSendFailed ==
    /\ Failed /\ job.attempt >= M /\ queues[wq].dlq # None
    /\ \E i \in Sends : calls[i].error # None

\* C3 as stated: after a terminal failure with a successful DLQ send, the
\* call log is the fetch, one send to the dlq queue, then one archive or
\* delete of the job, and work() returned None.
C3_Original ==
    DlqSendSucceeded =>
        /\ Len(calls) = 3
        /\ calls[2].call.op = "send"
        /\ calls[2].call.queue = queues[wq].dlq.val
        /\ calls[3].call = ExpectedFinalization
        /\ raised = None /\ ret = None

\* C3 amended: as C3, but a popped job (timeout == 0) gets no archive or
\* delete: its call log ends with the send.
C3_DeadLetterThenFinalize ==
    DlqSendSucceeded =>
        /\ Cardinality(Sends) = 1
        /\ calls[2].call.op = "send"
        /\ calls[2].call.queue = queues[wq].dlq.val
        /\ calls[2].call.data.original_job_id = job.id
        /\ IF job.popped
           THEN Len(calls) = 2
           ELSE Len(calls) = 3 /\ calls[3].call = ExpectedFinalization
        /\ Len(finishes) = 1
        /\ raised = None /\ ret = None

C3_Witness ==
    /\ DlqSendSucceeded
    /\ ~job.popped
    /\ Len(calls) = 3
    /\ calls[3].call.op = "archive"

\* the fetched job's message is still in the provider's queue
InProvider == job # None /\ \A i \in DOMAIN calls : ~provider_removes(calls[i])

\* C4 as stated: after a terminal failure whose DLQ send raised, work() has
\* called neither archive nor delete, an exception left work(), and the job
\* is still in the provider, to be redelivered.
C4_Original ==
    DlqSendFailed =>
        /\ Finalizations = {}
        /\ raised # None
        /\ InProvider

\* C4 amended: after a terminal failure whose DLQ send raised, work() has
\* called neither archive nor delete (finish was not called) and an
\* exception left work(); the job is still in the provider if it was
\* fetched by read, and already gone if it was fetched by pop.
C4_DlqFailureKeepsJob ==
    DlqSendFailed =>
        /\ Finalizations = {}
        /\ finishes = <<>>
        /\ raised # None
        /\ InProvider <=> ~job.popped

C4_Witness ==
    /\ DlqSendFailed
    /\ ~job.popped
    /\ raised # None

\* C5 as stated: when the DLQ send raised, the exception that leaves work()
\* is the one invoke raised.
C5_Original == DlqSendFailed => raised = exc

\* C5 amended: when the DLQ send raised, the exception that leaves work()
\* is the one the DLQ send raised, not the one invoke raised.
C5_DlqErrorPropagates ==
    DlqSendFailed =>
        /\ \A i \in Sends : raised = calls[i].error
        /\ raised # exc

C5_Witness ==
    /\ DlqSendFailed
    /\ raised = SendError
    /\ exc \in InvokeErrors

\* a terminal failure on a queue without a DLQ
ExhaustedWithoutDlq == Failed /\ job.attempt >= M /\ queues[wq].dlq = None

\* C6 as stated: after a terminal failure without DLQ the call log is the
\* fetch and one archive (or delete, if delete_on_finish) of the job;
\* nothing was sent and work() returned None.
C6_Original ==
    ExhaustedWithoutDlq =>
        /\ Len(calls) = 2
        /\ calls[2].call = ExpectedFinalization
        /\ Sends = {}
        /\ raised = None /\ ret = None

\* C6 amended: as C6 for an exception that is an Exception (work() does not
\* catch a KeyboardInterrupt or SystemExit), with finish called once; a
\* popped job (timeout == 0) gets no archive or delete.
C6_ExhaustedFinalizes ==
    (ExhaustedWithoutDlq /\ exc.cls \notin {"KeyboardInterrupt", "SystemExit"}) =>
        /\ Len(finishes) = 1
        /\ IF job.popped
           THEN Len(calls) = 1
           ELSE Len(calls) = 2 /\ calls[2].call = ExpectedFinalization
        /\ Sends = {}
        /\ raised = None /\ ret = None

C6_Witness ==
    /\ ExhaustedWithoutDlq
    /\ exc.cls = "RuntimeError"
    /\ job.attempt = M
    /\ ~job.popped
    /\ Len(calls) = 2
    /\ queues[wq].delete_on_finish
    /\ calls[2].call.op = "delete"

\* C7 as stated: after invoke returned, the Runnable was invoked once,
\* finish was called once and issued delete (delete_on_finish) or archive,
\* and work() returned the Runnable's output.
C7_Original ==
    Succeeded =>
        /\ Len(invocations) = 1
        /\ Len(finishes) = 1
        /\ Len(calls) = 2
        /\ calls[2].call = ExpectedFinalization
        /\ raised = None /\ ret = output.val

\* C7 amended: as C7; for a popped job (timeout == 0) finish issues
\* neither delete nor archive.
C7_SuccessFinishesOnce ==
    Succeeded =>
        /\ Len(invocations) = 1
        /\ Len(finishes) = 1
        /\ IF job.popped
           THEN Len(calls) = 1
           ELSE Len(calls) = 2 /\ calls[2].call = ExpectedFinalization
        /\ raised = None /\ ret = output.val

C7_Witness ==
    /\ Succeeded
    /\ ~job.popped
    /\ ret = [result |-> "success"]
    /\ calls[2].call.op = "delete"

\* the provider's read or pop raised a QueueNotFoundError
QueueNotFoundRaised ==
    /\ pc = "done"
    /\ response # None
    /\ response.kind = "raise"
    /\ response.error.cls \in {"aimq.providers.base.QueueNotFoundError",
                               "aimq.queue.QueueNotFoundError"}

\* C8: when the provider's read or pop raised QueueNotFound, next()
\* returned None and so did work(): no exception left work().
C8_QueueNotFoundIsNoWork ==
    QueueNotFoundRaised => (raised = None /\ ret = None /\ job = None)

\* the thread id the claim expects for a job
ExpectedThreadId(j) ==
    IF "thread_id" \in DOMAIN j.data
    THEN j.data.thread_id
    ELSE "job-" \o ToString(j.id)

\* C9: every invocation gets config.configurable.thread_id = the payload's
\* thread_id if present, else job-<id>; an input equal to the payload
\* without the thread_id key; metadata with worker name, queue name, job id.
C9_RuntimeConfig ==
    \A i \in DOMAIN invocations :
        LET inv == invocations[i]
        IN  /\ inv.config.configurable.thread_id = ExpectedThreadId(job)
            /\ "thread_id" \notin DOMAIN inv.input
            /\ DOMAIN inv.input = (DOMAIN job.data) \ {"thread_id"}
            /\ \A k \in DOMAIN inv.input : inv.input[k] = job.data[k]
            /\ inv.config.metadata.worker = WorkerName
            /\ inv.config.metadata.queue = wq
            /\ inv.config.metadata.job = job.id

C9_Witness ==
    /\ Len(invocations) = 1
    /\ "thread_id" \in DOMAIN job.data
    /\ "key" \in DOMAIN job.data
    /\ invocations[1].input = [key |-> "value"]
    /\ invocations[1].config.configurable.thread_id = "custom-thread-123"

\* C10: next() calls pop(name) and never read when timeout == 0; when
\* timeout > 0 it calls read(name, timeout, 1) once, with the configured
\* timeout, and never pop; it returns the first job of the answer or None.
C10_NextFetch ==
    calls # <<>> =>
        /\ IF queues[wq].timeout = 0
           THEN /\ calls[1].call = [op |-> "pop", queue |-> wq]
                /\ CallsOf({"read"}) = {}
           ELSE /\ calls[1].call = [op |-> "read", queue |-> wq,
                                    vt |-> queues[wq].timeout, n |-> 1]
                /\ CallsOf({"read"}) = {1}
                /\ CallsOf({"pop"}) = {}
        /\ response.kind = "pop" => job = response.job
        /\ response.kind = "read" =>
              job = IF Len(response.jobs) = 0 THEN None ELSE Head(response.jobs)

C10_Witness ==
    /\ pc = "fetched"
    /\ queues[wq].timeout = TimeoutDefault
    /\ response.kind = "read"
    /\ Len(response.jobs) = 2
    /\ job = response.jobs[1]
    /\ job # response.jobs[2]

\* C22 as stated: when finish(job) has been called twice for a job that was
\* not popped, the provider has seen at most one archive or delete call.
C22_Original ==
    (job # None /\ ~job.popped /\ Len(finishes) >= 2) =>
        Cardinality(Finalizations) <= 1

\* C22 amended: every finish(job) call for a job that was not popped issues
\* one archive or delete call (delete iff delete_on_finish) for that job,
\* the second call like the first, and returns whether that call returned;
\* for a popped job no call issues anything and each returns true.
C22_FinishRepeats ==
    (job # None /\ pc = "fetched") =>
        /\ Len(calls) = 1 + (IF job.popped THEN 0 ELSE Len(finishes))
        /\ \A i \in DOMAIN finishes :
              IF job.popped
              THEN finishes[i]
              ELSE /\ calls[i + 1].call = ExpectedFinalization
                   /\ finishes[i] = (calls[i + 1].error = None)

\* finish(job) called twice on a read job: two archive calls, both returned
C22_Witness ==
    /\ pc = "fetched"
    /\ ~job.popped
    /\ finishes = <<TRUE, TRUE>>
    /\ Len(calls) = 3
    /\ calls[2].call.op = "archive"
    /\ calls[3].call = calls[2].call

\* C25: when invoke raised on a job fetched with timeout == 0 whose attempt
\* is below M, the job was fetched by pop and is gone from the provider,
\* work() has called neither archive nor delete nor finish, has sent
\* nothing, dlq or not, and the exception of invoke is the one that leaves
\* work().
C25_PopFailureIsLost ==
    (Failed /\ queues[wq].timeout = 0 /\ job.attempt < M) =>
        /\ job.popped
        /\ Len(calls) = 1
        /\ calls[1].call.op = "pop"
        /\ ~InProvider
        /\ Finalizations = {}
        /\ Sends = {}
        /\ finishes = <<>>
        /\ raised = exc

C25_Witness ==
    /\ Failed
    /\ queues[wq].timeout = 0
    /\ queues[wq].dlq # None
    /\ job.attempt < M
    /\ job.popped
    /\ raised = exc
    /\ exc.cls = "RuntimeError"

\* the archive or delete call of this work() call raised
FinishFailed == \E i \in Finalizations : calls[i].error # None

\* C27: when the provider's archive or delete raised inside finish, finish
\* returned false, no exception left work(), and work() made no second
\* archive or delete call; after a successful invocation work() returned
\* the Runnable's output.
C27_FinishFailureSwallowed ==
    (pc = "done" /\ FinishFailed) =>
        /\ finishes = <<FALSE>>
        /\ Cardinality(Finalizations) = 1
        /\ raised = None
        /\ Succeeded => ret = output.val

C27_Witness ==
    /\ Succeeded
    /\ FinishFailed
    /\ finishes = <<FALSE>>
    /\ ret = [result |-> "success"]

\* the outcome of a failed invocation, by the retry limit, the dlq setting
\* and what the DLQ send did
FailureDecision ==
    LET exhausted == job.attempt >= M
        dlq == queues[wq].dlq # None
        send_failed == \E i \in Sends : calls[i].error # None
    IN  /\ Cardinality(Sends) = (IF exhausted /\ dlq THEN 1 ELSE 0)
        /\ Len(finishes) =
              (IF exhausted /\ ~send_failed THEN 1 ELSE 0)
        /\ raised = IF ~exhausted THEN exc
                    ELSE IF send_failed THEN SendError
                    ELSE None

\* on_error was called once, with the job and the exception of invoke,
\* when work() had issued the fetch and nothing else
HandledOnce ==
    /\ Len(handled) = 1
    /\ handled[1].job = job
    /\ handled[1].error = exc
    /\ handled[1].after = 1
    /\ \A i \in Sends \cup Finalizations : i > handled[1].after

\* C28 as stated: after every failed invocation on a queue with on_error,
\* on_error was called exactly once with (job, e), before any DLQ send or
\* finalization, and the outcome is the one the retry limit, the dlq
\* setting and the DLQ send decide, whatever on_error did.
C28_Original ==
    (Failed /\ queues[wq].on_error) => (HandledOnce /\ FailureDecision)

\* C28 amended: as C28 for an invocation that raised an Exception; after a
\* KeyboardInterrupt or SystemExit on_error is not called.  Without
\* on_error the outcome is decided the same way.
C28_OnErrorOnce ==
    /\ (Failed /\ ~NoException(exc)) =>
          /\ IF queues[wq].on_error THEN HandledOnce ELSE handled = <<>>
          /\ FailureDecision
    /\ (Failed /\ NoException(exc)) => (handled = <<>> /\ raised = exc)

\* on_error raised, and the job went to the DLQ and was archived
C28_Witness ==
    /\ Failed
    /\ queues[wq].on_error
    /\ Len(handled) = 1
    /\ handled[1].raised = HandlerError
    /\ job.attempt >= M
    /\ Cardinality(Sends) = 1
    /\ finishes = <<TRUE>>
    /\ raised = None

-----------------------------------------------------------------------------
(* Properties of the worker loop *)

\* the queue the for loop of the WorkerThread is at
LoopQueue == QueueNames[qi]

\* the step in which the loop takes what queue.work() returned or raised
TakesResult == lpc = "work" /\ pc = "done" /\ lpc' # "work"

\* ... after Runnable.invoke returned, whatever it returned
TakesSuccess == TakesResult /\ output # None /\ raised = None

\* ... when work() raised
TakesRaise == TakesResult /\ raised # None

\* the step in which the loop calls queue.work()
CallsWork == lpc # "work" /\ lpc' = "work"

\* the step in which a work() call fetches from the provider
Fetches == pc = "idle" /\ pc' # "idle"

\* the thread has left the while loop of run()
LeftLoop == lpc \in {"exited", "terminated", "crashed"}

C12_SuccessResetsCounter ==
    [][TakesSuccess => consecutive_failures'[LoopQueue] = 0]_vars

C14_BackoffFormula ==
    [][(TakesRaise /\ ~NoException(raised)) =>
          LET f == consecutive_failures'[LoopQueue]
          IN  current_backoff' =
                  IF f > 1
                  THEN backoff(config.worker_idle_wait, f)
                  ELSE current_backoff]_vars

\* C15: each pass of the idle sleep ends the sleep if the running flag is
\* cleared or the wake event is set, ends it if current_backoff has elapsed,
\* and otherwise waits one more tick; a sleep ended by the wake event leaves
\* current_backoff = idle_wait.
C15_InterruptibleSleep ==
    [][LoopSleep =>
          LET timed_out == elapsed >= current_backoff
              woken == event_set["wakeup_event"]
          IN  /\ (timed_out \/ ~is_running \/ woken) => lpc' # "sleep"
              /\ ~(timed_out \/ ~is_running \/ woken) =>
                    (lpc' = "sleep" /\ elapsed' = elapsed + 1)
              /\ (~timed_out /\ is_running /\ woken) =>
                    current_backoff' = config.worker_idle_wait
              /\ ~(~timed_out /\ is_running /\ woken) =>
                    UNCHANGED current_backoff]_vars

\* a sleep under a raised backoff, one tick in, that the wake event is about
\* to end
C15_Witness ==
    /\ lpc = "sleep"
    /\ is_running
    /\ elapsed >= 1
    /\ elapsed < current_backoff
    /\ current_backoff > config.worker_idle_wait
    /\ event_set["wakeup_event"]

-----------------------------------------------------------------------------
(* Properties of the realtime service, the shutdown and the Logger *)

\* C16: a broadcast for a queue the service does not monitor changes no
\* event; a broadcast for a monitored queue leaves every registered event
\* set; no broadcast changes an event that is not registered, so an event
\* taken back with unregister_worker is not set by later broadcasts.
C16_BroadcastWakesRegistered ==
    [][\A payload \in Payloads_broadcast :
          HandleBroadcast(payload) =>
              /\ payload_queue(payload) \notin monitored =>
                    UNCHANGED event_set
              /\ payload_queue(payload) \in monitored =>
                    \A e \in worker_events : event_set'[e]
              /\ \A e \in Events \ worker_events :
                    event_set'[e] = event_set[e]]_vars

\* a broadcast for a monitored queue has set the one registered event and
\* no event that is not registered
C16_Witness ==
    /\ monitored = Names
    /\ worker_events = {"event1"}
    /\ event_set["event1"]
    /\ ~event_set["event2"]
    /\ ~event_set["wakeup_event"]

\* the sentinel of Logger.stop() has been put on the queue
Stopped == \E i \in DOMAIN enqueued : enqueued[i] = Sentinel

\* C17: from construction until run() returns the thread's wake event is
\* registered with the realtime service it was given, and after run() has
\* returned it is not registered; once the running flag is cleared the
\* thread's run() returns.
C17_StopTerminatesLoop ==
    /\ [](/\ ((InLoop \/ lpc = "exited") /\ thread_service) =>
                "wakeup_event" \in worker_events
          /\ lpc = "terminated" => "wakeup_event" \notin worker_events)
    /\ (lpc # "none" /\ ~is_running) ~> lpc = "terminated"

\* the thread of a Worker with a realtime service has ended after a signal
C17_Witness ==
    /\ lpc = "terminated"
    /\ thread_service
    /\ ~is_running
    /\ shutdown_count = 1
    /\ "wakeup_event" \notin worker_events

\* the IO thread is past its while loop
IoLeftLoop == io \in {"disconnect", "stopping", "closed", "ended"}

IsPrefix(s, t) ==
    /\ Len(s) <= Len(t)
    /\ \A i \in DOMAIN s : s[i] = t[i]

\* C24: with connection attempts that all fail, is_connected is never
\* true; the loop's update_presence calls return (the step after each goes
\* on as after a call that did nothing: next queue with counters and
\* backoff untouched, or the idle sleep); the thread does not die, and it
\* leaves its loop only on a KeyboardInterrupt or SystemExit of a Runnable;
\* no step of the IO thread changes a variable of the loop; every pass
\* calls work() on each queue once, in order, before it is over; the idle
\* sleep lasts at most current_backoff and is followed by the next pass.
C24_OfflineDegradesToPolling ==
    /\ [](~connected)
    /\ [](lpc # "crashed")
    /\ [][(InLoop /\ LeftLoop') => (TakesResult /\ NoException(raised))]_vars
    /\ [](IsPrefix(dispatched, QueueNames))
    /\ [](lpc \in {"after_for", "presence_idle", "sleep"} =>
            dispatched = QueueNames)
    /\ [](lpc = "sleep" => elapsed <= current_backoff)
    /\ [][(lpc = "presence_busy" /\ lpc' # lpc) =>
            /\ lpc' = "for"
            /\ UNCHANGED <<consecutive_failures, current_backoff>>]_vars
    /\ [][(lpc = "presence_idle" /\ lpc' # lpc) => lpc' = "sleep"]_vars
    /\ [][(lpc = "sleep" /\ lpc' # lpc) => lpc' = "while"]_vars
    /\ [][(lpc = "while" /\ lpc' # lpc) => lpc' = "for"]_vars
    /\ [][io' # io => UNCHANGED <<loopvars, workvars>>]_vars

\* the service waits for its fourth retry while the loop, after an idle
\* presence update, has slept its whole idle wait
C24_Witness ==
    /\ ~connected
    /\ io = "wait"
    /\ Len(io_delays) = 4
    /\ thread_service
    /\ lpc = "sleep"
    /\ dispatched = QueueNames
    /\ elapsed = current_backoff

\* a payload without its thread_id key
WithoutThreadId(d) == [k \in (DOMAIN d) \ {"thread_id"} |-> d[k]]

\* the invocations made for message id
RunsOf(id) == {i \in DOMAIN runs : runs[i].id = id}

\* the provider still holds message id
Stored(id) ==
    \E q \in Names : \E i \in DOMAIN messages[q] : messages[q][i].id = id

\* C23: over a provider that honours leases, with Runnables that return and
\* finalization that succeeds, every invocation is for a message that was
\* sent, on its queue, with the message's payload less the thread_id key as
\* input; no message is invoked twice; a message that was invoked is gone
\* from the provider and no job the worker fetches was invoked before; and
\* every message sent is in the end invoked and gone.
C23_SendLeadsToOneInvocation ==
    /\ [](\A r \in DOMAIN runs :
            \E m \in DOMAIN sent :
                /\ sent[m].id = runs[r].id
                /\ sent[m].queue = runs[r].queue
                /\ runs[r].input = WithoutThreadId(sent[m].data))
    /\ [](\A id \in 1..MaxSends :
            /\ Cardinality(RunsOf(id)) <= 1
            /\ RunsOf(id) # {} => ~Stored(id))
    /\ []((pc = "fetched" /\ job # None) => RunsOf(job.id) = {})
    /\ \A id \in 1..MaxSends :
          (Len(sent) >= id) ~> (RunsOf(id) # {} /\ ~Stored(id))

\* two messages, one of them with a thread_id, each invoked once and gone
C23_Witness ==
    /\ Len(sent) = 2
    /\ Len(runs) = 2
    /\ \A q \in Names : messages[q] = <<>>
    /\ \E m \in DOMAIN sent, r \in DOMAIN runs :
          /\ runs[r].id = sent[m].id
          /\ "thread_id" \in DOMAIN sent[m].data
          /\ "thread_id" \notin DOMAIN runs[r].input
          /\ runs[r].input = [key |-> "value"]

\* C30: update_presence("busy", ...) never raises: the step that makes its
\* call for a processed job goes on to the next queue and changes no
\* failure counter and no backoff.
C30_PresenceNeverCountsFailure ==
    [][(lpc = "presence_busy" /\ lpc' # lpc) =>
            /\ lpc' = "for"
            /\ UNCHANGED <<consecutive_failures, current_backoff>>]_vars

\* C21: the queues on which a pass of the worker loop has called work()
\* are an initial segment of the queues in Worker.assign order, so each is
\* called at most once per pass and in that order; the call in progress is
\* for the last of them and fetches from that queue; and every step that
\* calls work() found the running flag set.
C21_DispatchInOrder ==
    /\ [](InLoop => IsPrefix(dispatched, QueueNames))
    /\ [](lpc = "work" =>
            /\ dispatched # <<>>
            /\ dispatched[Len(dispatched)] = LoopQueue
            /\ pc # "idle" => wq = LoopQueue)
    /\ [][CallsWork =>
            /\ is_running
            /\ dispatched' = Append(dispatched, LoopQueue)]_vars
    /\ [][~CallsWork => (dispatched' = dispatched \/ dispatched' = <<>>)]_vars

\* the second queue's work() has fetched a job, after the first queue's
C21_Witness ==
    /\ lpc = "work"
    /\ dispatched = QueueNames
    /\ Len(dispatched) = 2
    /\ pc = "fetched"
    /\ wq = QueueNames[2]

\* C26: once the running flag is cleared it stays cleared and the loop
\* calls work() no more: the only work() call that can still fetch is the
\* one in progress, whose check of the flag came before; a fetch is made
\* only inside a work() call, one per call.
C26_StopBoundsDispatch ==
    /\ [][~is_running => ~is_running']_vars
    /\ [][~is_running => ~CallsWork]_vars
    /\ [][Fetches => (lpc = "work" /\ lpc' = "work" /\ calls = <<>>)]_vars

\* the flag was cleared after the check, before the call's fetch
C26_Witness ==
    /\ ~is_running
    /\ lpc = "work"
    /\ pc = "idle"
    /\ shutdown_count = 1

\* Worker.start has started the WorkerThread
WorkerStarted == main \in {"started", "returned"}

\* C18: the first signal a started Worker receives clears running, stops
\* the realtime service and touches neither the process nor the work() call
\* in flight; once its handler has returned the sentinel is on the Logger's
\* queue; every later signal ends the process with exit code 1.
C18_TwoPhaseShutdown ==
    /\ [][(Signal /\ WorkerStarted) =>
             IF shutdown_count = 0
             THEN /\ ~is_running'
                  /\ service' # "running"
                  /\ process' = "alive"
                  /\ UNCHANGED <<lpc, workvars>>
             ELSE process' = "exit1"]_vars
    /\ [](shutdown_count >= 1 /\ handler = "none" => Stopped)

\* C19: a put on the Logger's queue never waits; what events() has taken
\* from the queue is what was put there first, in the order it was put, and
\* the items it yielded are those up to the sentinel; once stop() has been
\* called, a consumer waiting in events(block=True) returns.
C19_LoggerContract ==
    /\ [](/\ ~put_blocks(Len(log_queue))
          /\ LET n == Len(enqueued) - Len(log_queue)
                 taken == SubSeq(enqueued, 1, n)
             IN  /\ n >= 0
                 /\ enqueued = taken \o log_queue
                 /\ \/ taken = delivered
                    \/ taken = Append(delivered, Sentinel))
    /\ (Stopped /\ consumer = "blocking") ~> consumer = "returned"

\* a consumer has been handed two events and has returned on the sentinel
C19_Witness ==
    /\ consumer = "returned"
    /\ Len(delivered) = 2
    /\ enqueued = Append(delivered, Sentinel)
    /\ log_queue = <<>>

\* C20: when Worker.start(block=True) has returned, the sentinel of
\* Logger.stop() has been published and taken from the queue, together with
\* every event put before it.
C20_StartBlocksUntilStopped ==
    (main = "returned" /\ block) =>
        /\ Stopped
        /\ \A i \in DOMAIN log_queue : log_queue[i] # Sentinel
        /\ \E i \in DOMAIN enqueued :
              /\ enqueued[i] = Sentinel
              /\ Len(enqueued) - Len(log_queue) >= i

-----------------------------------------------------------------------------
(* Queue.run, Queue.work, Queue.send_to_dlq: the job's payload *)

\* the job as next() took it from the provider's answer
Fetched == next_result(response)

\* C31: run(), work() and send_to_dlq() leave job.data as it was fetched:
\* from the fetch to the return of work() the job does not change, what the
\* Runnable is given is the payload less its thread_id key, and job_data of
\* every DLQ envelope is the whole payload as fetched, thread_id included.
C31_JobDataUntouched ==
    /\ [](job # None => job = Fetched)
    /\ [][(pc # "idle" /\ pc' # "idle") => job' = job]_vars
    /\ [](\A i \in DOMAIN invocations :
            invocations[i].input = WithoutThreadId(Fetched.data))
    /\ [](\A i \in Sends :
            /\ calls[i].call.data.job_data = Fetched.data
            /\ calls[i].call.data.original_job_id = Fetched.id)

\* a job with a thread_id was run without it and dead-lettered with it
C31_Witness ==
    /\ pc = "done"
    /\ job # None
    /\ job = Fetched
    /\ job.data = [key |-> "value", thread_id |-> "custom-thread-123"]
    /\ invocations = <<run_invocation(wq, job)>>
    /\ invocations[1].input = [key |-> "value"]
    /\ \E i \in Sends :
          /\ calls[i].error = None
          /\ calls[i].call.data.job_data = job.data

-----------------------------------------------------------------------------
(* WorkerThread: the range of current_backoff *)

\* C34: with a multiplier of at least 1 and idle_wait <= max_backoff, in
\* every state of the thread idle_wait <= current_backoff <= max_backoff.
C34_BackoffInRange ==
    (/\ config.queue_backoff_multiplier.log2 >= 0
     /\ config.worker_idle_wait <= config.queue_max_backoff) =>
        /\ config.worker_idle_wait <= current_backoff
        /\ current_backoff <= config.queue_max_backoff

\* the third failure in a row with multiplier 2: idle_wait * 4 is above
\* max_backoff and the backoff is max_backoff
C34_Witness ==
    /\ InLoop
    /\ config.queue_backoff_multiplier.log2 = 1
    /\ config.worker_idle_wait < config.queue_max_backoff
    /\ \E q \in Names : consecutive_failures[q] = 3
    /\ config.worker_idle_wait * 4 > config.queue_max_backoff
    /\ current_backoff = config.queue_max_backoff

\* C35: whenever current_backoff is above idle_wait, some queue has failed
\* at least twice in a row.
C35_BackoffMeansRepeatedFailure ==
    current_backoff > config.worker_idle_wait =>
        \E q \in Names : consecutive_failures[q] >= 2

\* one queue backs the loop off, the loop sleeps the longer backoff
C35_Witness ==
    /\ lpc = "sleep"
    /\ current_backoff > config.worker_idle_wait
    /\ consecutive_failures[QueueNames[1]] = 0
    /\ consecutive_failures[QueueNames[2]] = 2

-----------------------------------------------------------------------------
(* WorkerThread: when a pass is followed by the idle sleep *)

\* the work() call whose result the loop is about to take fetched a job and
\* processed it: the Runnable returned, or it raised and the job was
\* finalized for good (dead-lettered, or dropped without a DLQ)
Processed ==
    /\ job # None
    /\ raised = None
    /\ \/ output # None
       \/ exc # None /\ finishes # <<>>

\* the loop is in its idle branch: the presence update or the sleep
Idling == lpc \in {"presence_idle", "sleep"}

-----------------------------------------------------------------------------
(* WorkerThread and RealtimeWakeupService: a wake-up before the sleep *)

\* the step of lines 143-144 that starts the idle sleep
StartsSleep == lpc # "sleep" /\ lpc' = "sleep"

\* C33: a broadcast for a monitored queue that is handled after the last
\* fetch of a pass and before the idle sleep starts ticking is not lost: the
\* wake event it set is still set when the sleep loop first tests it.
C33_WakeNotLost ==
    [][(StartsSleep /\ event_set["wakeup_event"]) =>
          event_set'["wakeup_event"]]_vars

-----------------------------------------------------------------------------
(* Queue.work over redeliveries: the retry limit *)

\* the retry limit of the queue a run was made for
LimitOf(r) == effective_max_retries(runs[r].queue)

\* every invocation for message id so far raised an Exception
Clean(id) == \A r \in RunsOf(id) : work_catches(runs[r].error)

\* the caller has taken a KeyboardInterrupt or SystemExit and polls no more
Interrupted == \E r \in DOMAIN runs : ~work_catches(runs[r].error)

\* the exception handler of the work() call on message id has not run yet
Handling(id) == pc = "failed" /\ job.id = id

\* the invocations of message id were made at attempts 1, 2, ... in turn,
\* none beyond the limit
CountedRuns(id) ==
    /\ \A r \in RunsOf(id) :
          /\ runs[r].attempt = Cardinality({k \in RunsOf(id) : k <= r})
          /\ runs[r].attempt <= LimitOf(r)
    /\ (pc = "fetched" /\ job # None /\ job.id = id) =>
          /\ job.attempt = Cardinality(RunsOf(id)) + 1
          /\ job.attempt <= effective_max_retries(wq)

\* after its last invocation message id is out of the provider
GoneAfterLimit(id) ==
    (/\ \E r \in RunsOf(id) : runs[r].attempt = LimitOf(r)
     /\ ~Handling(id)) => ~Stored(id)

\* C32 as stated: on a read-mode queue with limit M >= 1 whose Runnable
\* always raises, over a provider that counts deliveries from 1 and on which
\* the DLQ send and the finalization succeed, a job is invoked at attempts
\* 1..M and never beyond, and after the M-th invocation it is finalized and
\* not delivered again.
C32_Original ==
    \A id \in 1..MaxRetryJobs : CountedRuns(id) /\ GoneAfterLimit(id)

\* C32: the same for a Runnable that always raises an Exception: such a job
\* is invoked exactly M times, at attempts 1..M, never beyond, and after
\* the M-th invocation it is finalized and never delivered again, which
\* happens for every job sent unless the caller is interrupted.  (A
\* KeyboardInterrupt or SystemExit of the Runnable leaves the job in the
\* provider whatever its attempt.)
C32_RetryLimit ==
    /\ [](\A id \in 1..MaxRetryJobs :
            Clean(id) => (CountedRuns(id) /\ GoneAfterLimit(id)))
    /\ \A id \in 1..MaxRetryJobs :
          (Len(sent) >= id) ~>
              \/ Interrupted
              \/ /\ \E r \in RunsOf(id) : Cardinality(RunsOf(id)) = LimitOf(r)
                 /\ ~Stored(id)

\* a job on a queue with M = 2 and a DLQ was invoked twice, dead-lettered
\* and archived
C32_Witness ==
    /\ pc = "idle"
    /\ Len(sent) = 1
    /\ effective_max_retries(sent[1].queue) = 2
    /\ dlq_configured(sent[1].queue)
    /\ Clean(1)
    /\ Cardinality(RunsOf(1)) = 2
    /\ ~Stored(1)
    /\ Len(messages[DlqName]) = 1

\* the DLQ envelopes sent for message id
Envelopes(id) ==
    { i \in DOMAIN messages[DlqName] :
        messages[DlqName][i].data.original_job_id = id }

\* C37 as stated: over any deliveries of one job to work(), at most one DLQ
\* envelope with its id as original_job_id is sent.
C37_Original ==
    \A id \in 1..MaxRetryJobs : Cardinality(Envelopes(id)) <= 1

\* C37: each delivery of a job to work() sends at most one DLQ envelope
\* (the envelopes of a job carry different attempt counts, none below M),
\* and once the job is out of the provider no further envelope is sent for
\* it; a job whose finalization failed after the DLQ send is delivered again
\* and may be dead-lettered again.
C37_OneEnvelopePerDelivery ==
    /\ [](\A id \in 1..MaxRetryJobs :
            \A i, k \in Envelopes(id) :
                /\ messages[DlqName][i].data.attempt_count >=
                       effective_max_retries(
                           messages[DlqName][i].data.original_queue)
                /\ i # k =>
                       messages[DlqName][i].data.attempt_count #
                           messages[DlqName][k].data.attempt_count)
    /\ [][\A id \in 1..MaxRetryJobs :
              /\ Cardinality(Envelopes(id)') <= Cardinality(Envelopes(id)) + 1
              /\ (Envelopes(id) # {} /\ ~Stored(id)) =>
                     Envelopes(id)' = Envelopes(id)]_vars

\* a job was dead-lettered once, its archive failed, it was delivered and
\* dead-lettered again, and the second archive removed it
C37_Witness ==
    /\ pc = "idle"
    /\ Cardinality(Envelopes(1)) = 2
    /\ ~Stored(1)

-----------------------------------------------------------------------------
(* Worker.start and Worker.stop: one thread at a time *)

\* the step is a stop() call
StopCalled == api_calls' = Append(api_calls, "stop")

\* C38: over any sequence of start() and stop() calls, a stop whose join
\* timed out included, at most one WorkerThread of the Worker is alive;
\* the running flag is not set while a thread that was told to stop is
\* alive; and a stop() that finds the flag cleared changes nothing.
C38_OneThreadAtATime ==
    /\ [](Cardinality(Alive) <= 1)
    /\ [](\A i \in Alive : threads[i].told => ~is_running)
    /\ [][(StopCalled /\ ~is_running) =>
            UNCHANGED <<queues, workvars, workervars, storevars, thread,
                        threads>>]_vars

\* a stop whose join timed out, a start that found the thread alive and
\* returned, and a second stop that found the flag cleared: still the one
\* thread, told to stop, and the flag cleared
C38_Witness ==
    /\ api_calls = <<"start", "stop", "start", "stop">>
    /\ Len(threads) = 1
    /\ thread = 1
    /\ threads[1].alive
    /\ threads[1].told
    /\ ~is_running

====
